---- MODULE Spec2Model ----
(***************************************************************************)
(* A model of the eclairjs-node SQL facades: lib/sql/Row.js and            *)
(* lib/sql/DataFrame.js.                                                   *)
(*                                                                         *)
(* Row accessors are modelled at the granularity of the JavaScript job     *)
(* queue: a call runs its Promise executor synchronously, Promise.all      *)
(* subscribes to the row's two promises, and every promise reaction is a   *)
(* job of the microtask queue.  The kernel is the environment: it takes    *)
(* statements through kernel.execute and answers each one once.            *)
(*                                                                         *)
(* Text is a sequence of tokens.  A token is one character, or a literal   *)
(* fragment of a statement template that is never taken apart.             *)
(***************************************************************************)
EXTENDS Integers, Sequences, FiniteSets, TLC

\* ------------------------------------------------------------------ bounds

\* How many Row calls one behaviour makes.
MaxCalls == 2

\* How many DataFrame calls one behaviour makes.
MaxDfCalls == 2

\* How many elements the array of a collect or take payload has at most.
MaxRows == 2

\* The integers the kernel answers with are those from -MaxInt to MaxInt.
MaxInt == 12

\* ------------------------------------------------------------------ values

\* JavaScript values, all of one record shape so that any two compare.
\* A number is n * 10^e with e <= 0, in lowest terms (n not a multiple of 10
\* unless e = 0), so that equal numbers are equal records.
Undef == [t |-> "undefined", b |-> FALSE, n |-> 0, e |-> 0, s |-> <<>>]
Null == [t |-> "null", b |-> FALSE, n |-> 0, e |-> 0, s |-> <<>>]
NaN == [t |-> "NaN", b |-> FALSE, n |-> 0, e |-> 0, s |-> <<>>]
\* Infinity (b = FALSE) and -Infinity (b = TRUE).
Inf(neg) == [t |-> "Infinity", b |-> neg, n |-> 0, e |-> 0, s |-> <<>>]
Bool(b) == [t |-> "boolean", b |-> b, n |-> 0, e |-> 0, s |-> <<>>]
Num(n) == [t |-> "number", b |-> FALSE, n |-> n, e |-> 0, s |-> <<>>]
Str(s) == [t |-> "string", b |-> FALSE, n |-> 0, e |-> 0, s |-> s]
\* An object that wraps a remote handle whose id is the text s.
Handle(s) == [t |-> "handle", b |-> FALSE, n |-> 0, e |-> 0, s |-> s]
\* What a throwing conversion yields in place of a value.
Throws == [t |-> "throws", b |-> FALSE, n |-> 0, e |-> 0, s |-> <<>>]

RECURSIVE Pow10(_)
Pow10(k) == IF k <= 0 THEN 1 ELSE 10 * Pow10(k - 1)

\* The number m * 10^x as a value in lowest terms.
RECURSIVE Dec(_, _)
Dec(m, x) == IF m = 0 THEN Num(0)
             ELSE IF x >= 0 THEN Num(m * Pow10(x))
             ELSE IF m % 10 = 0 THEN Dec(m \div 10, x + 1)
             ELSE [t |-> "number", b |-> FALSE, n |-> m, e |-> x, s |-> <<>>]

DigitChars == <<"0", "1", "2", "3", "4", "5", "6", "7", "8", "9">>

IsDigit(ch) == \E i \in 1..10 : DigitChars[i] = ch

DigitVal(ch) == (CHOOSE i \in 1..10 : DigitChars[i] = ch) - 1

IsSpace(ch) == ch = " "

\* The decimal text of a natural number.
RECURSIVE NatText(_)
NatText(n) == IF n < 10 THEN <<DigitChars[n + 1]>>
              ELSE NatText(n \div 10) \o <<DigitChars[(n % 10) + 1]>>

\* String(n) for an integer: what a template slot holds for a number.
NumText(n) == IF n < 0 THEN <<"-">> \o NatText(-n) ELSE NatText(n)

\* k zeros.
RECURSIVE Zeros(_)
Zeros(k) == IF k <= 0 THEN <<>> ELSE <<"0">> \o Zeros(k - 1)

\* String(x) for the number n * 10^e, e < 0, in lowest terms: 0.5, -12.25.
DecText(n, e) ==
  LET a == IF n < 0 THEN 0 - n ELSE n
      whole == a \div Pow10(0 - e)
      frac == NatText(a % Pow10(0 - e))
  IN (IF n < 0 THEN <<"-">> ELSE <<>>) \o NatText(whole) \o <<".">>
     \o Zeros((0 - e) - Len(frac)) \o frac

\* The value of a run of digits.
RECURSIVE DigitsVal(_)
DigitsVal(s) == IF s = <<>> THEN 0
                ELSE 10 * DigitsVal(SubSeq(s, 1, Len(s) - 1)) + DigitVal(s[Len(s)])

\* s without its leading and without its trailing white space.
RECURSIVE TrimLeft(_)
TrimLeft(s) == IF s # <<>> /\ IsSpace(Head(s)) THEN TrimLeft(Tail(s)) ELSE s

RECURSIVE TrimRight(_)
TrimRight(s) == IF s # <<>> /\ IsSpace(s[Len(s)])
                THEN TrimRight(SubSeq(s, 1, Len(s) - 1)) ELSE s

Trim(s) == TrimRight(TrimLeft(s))

AllDigits(s) == s # <<>> /\ \A i \in 1..Len(s) : IsDigit(s[i])

\* A JSON number without fraction or exponent: -?(0|[1-9][0-9]*).
IsJsonInt(s) ==
  LET d == IF s # <<>> /\ Head(s) = "-" THEN Tail(s) ELSE s
  IN AllDigits(d) /\ (Len(d) > 1 => Head(d) # "0")

JsonIntVal(s) == IF Head(s) = "-" THEN 0 - DigitsVal(Tail(s)) ELSE DigitsVal(s)

\* A JSON string without escapes: "...".
IsJsonString(s) ==
  /\ Len(s) >= 2
  /\ Head(s) = "\""
  /\ s[Len(s)] = "\""
  /\ \A i \in 2..(Len(s) - 1) : s[i] \notin {"\"", "\\"}

\* JSON.parse on a scalar text: Throws stands for the SyntaxError.
JSONparseScalar(text) ==
  LET s == Trim(text)
  IN CASE s = <<"t", "r", "u", "e">> -> Bool(TRUE)
       [] s = <<"f", "a", "l", "s", "e">> -> Bool(FALSE)
       [] s = <<"n", "u", "l", "l">> -> Null
       [] IsJsonInt(s) -> Num(JsonIntVal(s))
       [] IsJsonString(s) -> Str(SubSeq(s, 2, Len(s) - 1))
       [] OTHER -> Throws

\* ------------------------------------------------- numeric conversions

\* The length of the longest prefix of s made of digits.
RECURSIVE DigitRun(_)
DigitRun(s) == IF s # <<>> /\ IsDigit(Head(s)) THEN 1 + DigitRun(Tail(s)) ELSE 0

Drop(s, k) == SubSeq(s, k + 1, Len(s))

Take(s, k) == SubSeq(s, 1, k)

HasPrefix(s, p) == Len(s) >= Len(p) /\ Take(s, Len(p)) = p

HexChars == <<"0", "1", "2", "3", "4", "5", "6", "7", "8", "9",
              "a", "b", "c", "d", "e", "f">>

UpperHexChars == <<"0", "1", "2", "3", "4", "5", "6", "7", "8", "9",
                   "A", "B", "C", "D", "E", "F">>

IsHexDigit(ch) == \E i \in 1..16 : HexChars[i] = ch \/ UpperHexChars[i] = ch

HexDigitVal(ch) == (CHOOSE i \in 1..16 : HexChars[i] = ch \/ UpperHexChars[i] = ch) - 1

RECURSIVE HexRun(_)
HexRun(s) == IF s # <<>> /\ IsHexDigit(Head(s)) THEN 1 + HexRun(Tail(s)) ELSE 0

RECURSIVE HexVal(_)
HexVal(s) == IF s = <<>> THEN 0
             ELSE 16 * HexVal(SubSeq(s, 1, Len(s) - 1)) + HexDigitVal(s[Len(s)])

IsHexPrefix(s) == Len(s) >= 2 /\ s[1] = "0" /\ s[2] \in {"x", "X"}

\* Mutant of parseInt: only the first digit is read.
parseInt_firstDigit(text) ==
  LET s0 == TrimLeft(text)
      neg == s0 # <<>> /\ Head(s0) = "-"
      s1 == IF s0 # <<>> /\ Head(s0) \in {"-", "+"} THEN Tail(s0) ELSE s0
      k == IF DigitRun(s1) > 0 THEN 1 ELSE 0
      v == DigitsVal(Take(s1, k))
  IN IF k = 0 THEN NaN ELSE Num(IF neg THEN 0 - v ELSE v)

\* parseInt(text) with no radix: leading white space is skipped, a sign is
\* taken, a 0x prefix selects radix 16, and the longest run of digits is the
\* result; NaN when there is no digit.
parseInt(text) ==
  LET s0 == TrimLeft(text)
      neg == s0 # <<>> /\ Head(s0) = "-"
      s1 == IF s0 # <<>> /\ Head(s0) \in {"-", "+"} THEN Tail(s0) ELSE s0
      hex == IsHexPrefix(s1)
      s2 == IF hex THEN Drop(s1, 2) ELSE s1
      k == IF hex THEN HexRun(s2) ELSE DigitRun(s2)
      v == IF hex THEN HexVal(Take(s2, k)) ELSE DigitsVal(Take(s2, k))
  IN IF k = 0 THEN NaN ELSE Num(IF neg THEN 0 - v ELSE v)

InfinityText == <<"I", "n", "f", "i", "n", "i", "t", "y">>

\* The longest prefix of s that is a StrDecimalLiteral, as
\* [len |-> its length (0: none), v |-> its value].
DecimalPrefix(s) ==
  LET signed == s # <<>> /\ Head(s) \in {"-", "+"}
      neg == s # <<>> /\ Head(s) = "-"
      u == IF signed THEN Tail(s) ELSE s
      sl == IF signed THEN 1 ELSE 0
      ni == DigitRun(u)
      afterInt == Drop(u, ni)
      dot == afterInt # <<>> /\ Head(afterInt) = "."
      nf == IF dot THEN DigitRun(Tail(afterInt)) ELSE 0
      mantLen == ni + (IF dot THEN 1 + nf ELSE 0)
      afterMant == Drop(u, mantLen)
      hasE == afterMant # <<>> /\ Head(afterMant) \in {"e", "E"}
      e1 == IF hasE THEN Tail(afterMant) ELSE <<>>
      eSigned == e1 # <<>> /\ Head(e1) \in {"-", "+"}
      eNeg == e1 # <<>> /\ Head(e1) = "-"
      e2 == IF eSigned THEN Tail(e1) ELSE e1
      ne == DigitRun(e2)
      expLen == IF hasE /\ ne > 0 THEN 1 + (IF eSigned THEN 1 ELSE 0) + ne ELSE 0
      ex == IF expLen = 0 THEN 0
            ELSE IF eNeg THEN 0 - DigitsVal(Take(e2, ne)) ELSE DigitsVal(Take(e2, ne))
      digits == Take(u, ni) \o (IF dot THEN Take(Tail(afterInt), nf) ELSE <<>>)
      m == DigitsVal(digits)
  IN IF HasPrefix(u, InfinityText)
     THEN [len |-> sl + Len(InfinityText), v |-> Inf(neg)]
     ELSE IF ni + nf = 0 THEN [len |-> 0, v |-> NaN]
     ELSE [len |-> sl + mantLen + expLen,
           v |-> Dec(IF neg THEN 0 - m ELSE m, ex - nf)]

\* parseFloat(text): the longest decimal literal after leading white space.
parseFloat(text) == DecimalPrefix(TrimLeft(text)).v

\* Number(text), the conversion isFinite and new Number apply to a string:
\* the whole trimmed text must be a numeric literal; the empty text is 0.
ToNumber(text) ==
  LET s == Trim(text)
      d == DecimalPrefix(s)
  IN IF s = <<>> THEN Num(0)
     ELSE IF IsHexPrefix(s)
     THEN (IF Len(s) > 2 /\ HexRun(Drop(s, 2)) = Len(s) - 2
           THEN Num(HexVal(Drop(s, 2))) ELSE NaN)
     ELSE IF d.len = Len(s) THEN d.v
     ELSE NaN

\* isFinite(text)
isFinite(text) == ToNumber(text).t = "number"

\* The UTF-16 code of the characters the model's texts are made of.
CharCode(ch) ==
  CASE IsDigit(ch) -> 48 + DigitVal(ch)
    [] ch = " " -> 32
    [] ch = "\"" -> 34
    [] ch = "+" -> 43
    [] ch = "-" -> 45
    [] ch = "." -> 46
    [] ch = "[" -> 91
    [] ch = "\\" -> 92
    [] ch = "]" -> 93
    [] ch = "a" -> 97
    [] ch = "b" -> 98
    [] ch = "e" -> 101
    [] ch = "f" -> 102
    [] ch = "l" -> 108
    [] ch = "n" -> 110
    [] ch = "r" -> 114
    [] ch = "s" -> 115
    [] ch = "t" -> 116
    [] ch = "u" -> 117
    [] ch = "x" -> 120

\* text.charCodeAt(0): NaN for the empty text.
charCodeAt0(text) == IF text = <<>> THEN NaN ELSE Num(CharCode(Head(text)))

\* ------------------------------------------------------------- JSON text

\* A JSON document, every node of one record shape: k is its kind, s the
\* lexeme of a scalar, items the elements of an array or the values of an
\* object's members, keys the names of those members.  JUndefined is what
\* reading a missing property gives, JFunction a built-in method.
JNode(k, lexeme, items, keys) == [k |-> k, s |-> lexeme, items |-> items, keys |-> keys]

JNull == JNode("null", "null", <<>>, <<>>)

JUndefined == JNode("undefined", "", <<>>, <<>>)

JFunction == JNode("function", "", <<>>, <<>>)

JNum(lexeme) == JNode("number", lexeme, <<>>, <<>>)

JStr(lexeme) == JNode("string", lexeme, <<>>, <<>>)

JBool(lexeme) == JNode("boolean", lexeme, <<>>, <<>>)

JArray(items) == JNode("array", "", items, <<>>)

JObject(keys, items) == JNode("object", "", items, keys)

\* The lexemes of the scalars that occur in the kernel's payloads.  A
\* payload is a sequence of lexemes: the characters inside a lexeme are not
\* taken apart.
NumberLexemes == {"1", "7", "30"}

StringLexemes == {"\"values\"", "\"schema\"", "\"fields\"", "\"name\"", "\"dataType\"",
                  "\"nullable\"", "\"Alice\"", "\"age\"", "\"integer\""}

BoolLexemes == {"true", "false"}

\* JSON.stringify on the kernel's side.
RECURSIVE Stringify(_), StringifyItems(_, _), StringifyMembers(_, _, _)
Stringify(j) ==
  CASE j.k = "array" -> <<"[">> \o StringifyItems(j.items, 1) \o <<"]">>
    [] j.k = "object" -> <<"{">> \o StringifyMembers(j.keys, j.items, 1) \o <<"}">>
    [] OTHER -> <<j.s>>

StringifyItems(items, i) ==
  IF i > Len(items) THEN <<>>
  ELSE (IF i > 1 THEN <<",">> ELSE <<>>) \o Stringify(items[i]) \o StringifyItems(items, i + 1)

StringifyMembers(keys, items, i) ==
  IF i > Len(keys) THEN <<>>
  ELSE (IF i > 1 THEN <<",">> ELSE <<>>) \o <<keys[i], ":">> \o Stringify(items[i])
       \o StringifyMembers(keys, items, i + 1)

\* A failed parse, and the result of parsing one value: the value and the
\* position after it.
ParseFail == [ok |-> FALSE, v |-> JNull, next |-> 0]

ParseOk(v, next) == [ok |-> TRUE, v |-> v, next |-> next]

\* A recursive-descent JSON parser over lexemes.
RECURSIVE ParseValue(_, _), ParseElements(_, _, _), ParseMembers(_, _, _, _)
ParseValue(toks, i) ==
  IF i > Len(toks) THEN ParseFail
  ELSE CASE toks[i] = "[" ->
              IF i + 1 <= Len(toks) /\ toks[i + 1] = "]"
              THEN ParseOk(JArray(<<>>), i + 2)
              ELSE ParseElements(toks, i + 1, <<>>)
         [] toks[i] = "{" ->
              IF i + 1 <= Len(toks) /\ toks[i + 1] = "}"
              THEN ParseOk(JObject(<<>>, <<>>), i + 2)
              ELSE ParseMembers(toks, i + 1, <<>>, <<>>)
         [] toks[i] = "null" -> ParseOk(JNull, i + 1)
         [] toks[i] \in BoolLexemes -> ParseOk(JBool(toks[i]), i + 1)
         [] toks[i] \in NumberLexemes -> ParseOk(JNum(toks[i]), i + 1)
         [] toks[i] \in StringLexemes -> ParseOk(JStr(toks[i]), i + 1)
         [] OTHER -> ParseFail

ParseElements(toks, i, acc) ==
  LET r == ParseValue(toks, i)
  IN IF ~r.ok \/ r.next > Len(toks) THEN ParseFail
     ELSE IF toks[r.next] = "," THEN ParseElements(toks, r.next + 1, Append(acc, r.v))
     ELSE IF toks[r.next] = "]" THEN ParseOk(JArray(Append(acc, r.v)), r.next + 1)
     ELSE ParseFail

ParseMembers(toks, i, keys, vals) ==
  IF i + 1 > Len(toks) \/ toks[i] \notin StringLexemes \/ toks[i + 1] # ":" THEN ParseFail
  ELSE LET r == ParseValue(toks, i + 2)
       IN IF ~r.ok \/ r.next > Len(toks) THEN ParseFail
          ELSE IF toks[r.next] = ","
          THEN ParseMembers(toks, r.next + 1, Append(keys, toks[i]), Append(vals, r.v))
          ELSE IF toks[r.next] = "}"
          THEN ParseOk(JObject(Append(keys, toks[i]), Append(vals, r.v)), r.next + 1)
          ELSE ParseFail

\* JSON.parse(text): the document, or none when it throws a SyntaxError.
JSONparse(toks) ==
  LET r == ParseValue(toks, 1)
  IN IF r.ok /\ r.next = Len(toks) + 1
     THEN [threw |-> FALSE, v |-> r.v] ELSE [threw |-> TRUE, v |-> JNull]

\* Array.isArray(x)
IsArray(j) == j.k = "array"

\* Whether reading a property of x throws a TypeError: x is null or undefined.
PropThrows(j) == j.k \in {"null", "undefined"}

\* x[key] for a value that is not null: the member of an object (the last
\* one of that name), a built-in method of an array, undefined otherwise.
GetProp(j, key) ==
  LET hits == {i \in 1..Len(j.keys) : j.keys[i] = key}
  IN IF j.k = "object" /\ hits # {}
     THEN j.items[CHOOSE i \in hits : \A h \in hits : h <= i]
     ELSE IF j.k = "array" /\ key = "\"values\"" THEN JFunction
     ELSE JUndefined

\* ---------------------------------------------------------------- state

VARIABLES
  refIdP,      \* the row's handle id, a promise: [st, v]
  kernelP,     \* the kernel connection, a promise: [st, v]
  calls,       \* the calls made on the row so far, one record each
  reactions,   \* reactions[i]: calls that wait on input i (1 refIdP, 2 kernelP)
  microtasks,  \* the job queue of promise reactions, first in first out
  executed,    \* the statements passed to kernel.execute, in order
  uncaught,    \* calls whose callback threw outside every promise
  frames,      \* the DataFrame facades: the handle id of each, a promise
  dfCalls,     \* the calls made on DataFrame facades, one record each
  dfExecuted,  \* the statements Utils.generate passed to kernel.execute
  genCount,    \* how many variable names protocol.genVariable has made
  wire,        \* the text the kernel answers to collect and take
  given,       \* what the callers pass and the kernel answers in this behaviour
  shown,       \* the last call of DataFrame.show: its arguments, what it logged
  globals      \* the properties kernelP and refIdP of the global object

rowVars == <<refIdP, calls, reactions, microtasks, executed, uncaught>>

dfVars == <<frames, dfCalls, dfExecuted, genCount, wire>>

vars == <<kernelP, rowVars, dfVars, given, shown, globals>>

\* The arguments and answers of a row whose callers pass what the
\* documentation asks for: an integer index, a name, and separator, start
\* and end to mkString.
Documented ==
  [indexes |-> {Num(0)},
   names |-> {Str(<<"a">>)},
   mkStringArgs |-> {<<Str(<<",">>), Str(<<"[">>), Str(<<"]">>)>>},
   replyTexts |-> {<<"t", "r", "u", "e">>, <<"4", "2">>, <<"a", "b">>}]

\* The arguments the model's calls are made with.
Indexes == given.indexes

Names == given.names

MkStringArgs == given.mkStringArgs

\* Arguments of any kind, for the methods that throw before they read them.
ArgValues == {Undef, Num(0)}

\* What the kernel answers to a statement that ran.
ReplyTexts == given.replyTexts

\* The kernel's diagnostic for a statement that failed.
Diagnostic == "kernel error"

\* The error every unimplemented method throws.
NotImplementedException == "NotImplementedException"

\* Promise.all([self.refIdP, self.kernelP]): input 1 and input 2.
Input(i) == IF i = 1 THEN refIdP ELSE kernelP

Job(k, c, i) == [k |-> k, c |-> c, i |-> i]

\* String(v): the text a template slot holds for the value v.
ToText(v) ==
  CASE v.t = "string" -> v.s
    [] v.t = "number" /\ v.e = 0 -> NumText(v.n)
    [] v.t = "number" /\ v.e < 0 -> DecText(v.n, v.e)
    [] v.t = "boolean" -> IF v.b THEN <<"t", "r", "u", "e">> ELSE <<"f", "a", "l", "s", "e">>
    [] v.t = "undefined" -> <<"undefined">>
    [] v.t = "null" -> <<"null">>
    [] v.t = "NaN" -> <<"NaN">>
    [] v.t = "handle" -> v.s

\* The i-th argument of a call, undefined when the caller gave fewer.
Arg(args, i) == IF i <= Len(args) THEN args[i] ELSE Undef

IsSlot(tok) == tok \in {"{{inRefId}}", "{{refId}}", "{{index}}", "{{name}}", "{{obj}}",
                        "{{arg1}}", "{{arg2}}", "{{arg3}}"}

\* Utils.processTemplate: every {{name}} of the template is replaced by the
\* text of its slot; the rest of the template is kept as it is.
RECURSIVE processTemplate(_, _)
processTemplate(templateStr, slots) ==
  IF templateStr = <<>> THEN <<>>
  ELSE (IF IsSlot(Head(templateStr)) THEN ToText(slots[Head(templateStr)])
        ELSE <<Head(templateStr)>>)
       \o processTemplate(Tail(templateStr), slots)

\* ------------------------------------------------------------ Row.js

Implemented == {"anyNull", "fieldIndex", "get", "getBoolean", "getByte", "getDouble",
                "getInt", "getString", "isNullAt", "length", "mkString", "size"}

Unimplemented == {"apply", "copy", "equals", "getDate", "getDecimal", "getFloat",
                  "getLong", "getShort", "getStruct", "getTimestamp", "hashCode",
                  "schema"}

\* templateStr of each method; mkString picks its template by args.length.
RowTemplate(m, args) ==
  CASE m \in {"anyNull", "hashCode", "length", "size"} ->
         <<"{{inRefId}}", ".", m, "(", ");">>
    [] m \in {"apply", "get", "getBoolean", "getByte", "getDate", "getDecimal",
              "getDouble", "getFloat", "getInt", "getLong", "getShort", "getString",
              "getStruct", "getTimestamp", "isNullAt"} ->
         <<"{{inRefId}}", ".", m, "(", "{{index}}", ");">>
    [] m = "equals" -> <<"{{inRefId}}", ".", m, "(", "{{obj}}", ");">>
    [] m = "fieldIndex" -> <<"{{inRefId}}", ".", m, "(", "\"", "{{name}}", "\"", ");">>
    [] m \in {"copy", "schema"} ->
         <<"var ", "{{refId}}", " = ", "{{inRefId}}", ".", m, "(", ");">>
    [] m = "mkString" ->
         IF Len(args) = 3
         THEN <<"{{inRefId}}", ".", m, "(", "\"", "{{arg1}}", "\"", ", ",
                "\"", "{{arg2}}", "\"", ", ", "\"", "{{arg3}}", "\"", ");">>
         ELSE IF Len(args) = 1
         THEN <<"{{inRefId}}", ".", m, "(", "\"", "{{arg1}}", "\"", ");">>
         ELSE <<"{{inRefId}}", ".", m, "(", ");">>

\* The slot values each method hands to Utils.processTemplate.
RowSlots(m, refId, args) ==
  [tok \in {"{{inRefId}}", "{{refId}}", "{{index}}", "{{name}}", "{{obj}}",
            "{{arg1}}", "{{arg2}}", "{{arg3}}"} |->
     CASE tok = "{{inRefId}}" -> Str(<<refId>>)
       [] tok = "{{refId}}" -> Str(<<m, "1">>)
       [] tok \in {"{{index}}", "{{name}}", "{{obj}}", "{{arg1}}"} -> Arg(args, 1)
       [] tok = "{{arg2}}" -> Arg(args, 2)
       [] tok = "{{arg3}}" -> Arg(args, 3)]

\* The statement a call submits once its handle id is known.
RowCode(m, refId, args) == processTemplate(RowTemplate(m, args), RowSlots(m, refId, args))

\* The local _resolve of each method: the value it hands to resolve for the
\* kernel's text, or Throws when the conversion throws.
RowCoerce(m, text) ==
  CASE m \in {"anyNull", "apply", "equals", "getBoolean", "getDate", "getTimestamp",
              "isNullAt"} -> JSONparseScalar(text)
    [] m \in {"fieldIndex", "getInt", "getLong", "getShort", "hashCode", "length",
              "size"} -> parseInt(text)
    [] m \in {"getDecimal", "getDouble", "getFloat"} -> parseFloat(text)
    [] m = "get" -> IF isFinite(text) THEN ToNumber(text) ELSE Str(text)
    [] m = "getByte" -> charCodeAt0(text)
    [] m \in {"getString", "getStruct", "mkString", "copy", "schema"} -> Str(text)

\* A call as it is when the method is entered.
NewCall(m, args) ==
  [m |-> m, args |-> args,
   ret |-> "none",        \* what the method returned: a promise, or nothing
   thrown |-> "",         \* what the method threw
   remaining |-> 2,       \* Promise.all: inputs not yet seen resolved
   allSt |-> "none",      \* the promise of Promise.all
   allErr |-> "",
   thenSt |-> "none",     \* the promise of .then(callback)
   handle |-> "none",     \* what kernel.execute returned: none, inflight, done
   reply |-> "none",      \* what the kernel reported: none, result, error
   decoded |-> "none",    \* the conversion of the result: none, value, threw
   out |-> "none",        \* the promise returned to the caller
   val |-> Undef, err |-> ""]

\* Mutant of RowAwaits: the accessor waits for the connection only.
RowAwaits_kernelOnly == {2}

\* The inputs an accessor hands to Promise.all: [self.refIdP, self.kernelP].
RowAwaits == {1, 2}

\* The jobs of Promise.all for the inputs already settled, in input order.
SettledJobs(c) ==
  (IF 1 \in RowAwaits /\ refIdP.st # "pending" THEN <<Job("elem", c, 1)>> ELSE <<>>)
  \o (IF 2 \in RowAwaits /\ kernelP.st # "pending" THEN <<Job("elem", c, 2)>> ELSE <<>>)

\* The body every implemented accessor shares: new Promise(executor), whose
\* executor subscribes Promise.all to refIdP and kernelP, chains the
\* callback with .then and reject with .catch, and returns.
RowDispatch(m, args) ==
  /\ Len(calls) < MaxCalls
  /\ LET c == Len(calls) + 1
     IN /\ calls' = Append(calls, [NewCall(m, args) EXCEPT !.ret = "promise",
                                     !.remaining = Cardinality(RowAwaits),
                                     !.allSt = "pending", !.thenSt = "pending",
                                     !.out = "pending"])
        /\ microtasks' = microtasks \o SettledJobs(c)
        /\ reactions' = [i \in 1..2 |-> IF i \in RowAwaits /\ Input(i).st = "pending"
                                        THEN Append(reactions[i], c) ELSE reactions[i]]
  /\ UNCHANGED <<refIdP, kernelP, executed, uncaught>>

\* The first statement of every unimplemented method: throw {name: ...}.
RowThrow(m, args) ==
  /\ Len(calls) < MaxCalls
  /\ calls' = Append(calls, [NewCall(m, args) EXCEPT !.thrown = NotImplementedException])
  /\ UNCHANGED <<refIdP, kernelP, reactions, microtasks, executed, uncaught>>

Row_anyNull == RowDispatch("anyNull", <<>>)

Row_apply == \E index \in ArgValues : RowThrow("apply", <<index>>)

Row_copy == RowThrow("copy", <<>>)

Row_equals == \E o \in Indexes : RowThrow("equals", <<o>>)

Row_fieldIndex == \E name \in Names : RowDispatch("fieldIndex", <<name>>)

Row_get == \E index \in Indexes : RowDispatch("get", <<index>>)

Row_getBoolean == \E index \in Indexes : RowDispatch("getBoolean", <<index>>)

Row_getByte == \E index \in Indexes : RowDispatch("getByte", <<index>>)

Row_getDate == \E index \in Indexes : RowThrow("getDate", <<index>>)

Row_getDecimal == \E index \in Indexes : RowThrow("getDecimal", <<index>>)

Row_getDouble == \E index \in Indexes : RowDispatch("getDouble", <<index>>)

Row_getFloat == \E index \in Indexes : RowThrow("getFloat", <<index>>)

Row_getInt == \E index \in Indexes : RowDispatch("getInt", <<index>>)

\* Mutant of Row_getLong: the throw statement is gone and the body below it runs.
Row_getLong_noThrow == \E index \in ArgValues : RowDispatch("getLong", <<index>>)

Row_getLong == \E index \in ArgValues : RowThrow("getLong", <<index>>)

Row_getShort == \E index \in Indexes : RowThrow("getShort", <<index>>)

Row_getString == \E index \in Indexes : RowDispatch("getString", <<index>>)

Row_getStruct == \E index \in Indexes : RowThrow("getStruct", <<index>>)

Row_getTimestamp == \E index \in Indexes : RowThrow("getTimestamp", <<index>>)

Row_hashCode == RowThrow("hashCode", <<>>)

Row_isNullAt == \E index \in Indexes : RowDispatch("isNullAt", <<index>>)

Row_length == RowDispatch("length", <<>>)

Row_mkString == \E args \in MkStringArgs : RowDispatch("mkString", args)

Row_schema == RowThrow("schema", <<>>)

Row_size == RowDispatch("size", <<>>)

\* ------------------------------------------- promises and the job queue

\* resolve(v) and reject(reason) of the promise an accessor returned: the
\* first of them to be called settles it, later calls do nothing.
Resolved(call, v) ==
  IF call.out = "pending" THEN [call EXCEPT !.out = "resolved", !.val = v] ELSE call

Rejected(call, reason) ==
  IF call.out = "pending" THEN [call EXCEPT !.out = "rejected", !.err = reason] ELSE call

\* Mutant of Settle: the reactions are queued last registered first.
Settle_lastFirst(i, st, v) ==
  /\ Input(i).st = "pending"
  /\ IF i = 1
     THEN refIdP' = [st |-> st, v |-> v] /\ UNCHANGED kernelP
     ELSE kernelP' = [st |-> st, v |-> v] /\ UNCHANGED refIdP
  /\ microtasks' = microtasks \o [k \in 1..Len(reactions[i]) |->
                                   Job("elem", reactions[i][Len(reactions[i]) + 1 - k], i)]
  /\ reactions' = [reactions EXCEPT ![i] = <<>>]
  /\ UNCHANGED <<calls, executed, uncaught>>

\* The row's promises are settled by whoever made the row, at any time.
Settle(i, st, v) ==
  /\ Input(i).st = "pending"
  /\ IF i = 1
     THEN refIdP' = [st |-> st, v |-> v] /\ UNCHANGED kernelP
     ELSE kernelP' = [st |-> st, v |-> v] /\ UNCHANGED refIdP
  /\ microtasks' = microtasks \o [k \in 1..Len(reactions[i]) |-> Job("elem", reactions[i][k], i)]
  /\ reactions' = [reactions EXCEPT ![i] = <<>>]
  /\ UNCHANGED <<calls, executed, uncaught>>

ResolveRefId == Settle(1, "resolved", "row1")

RejectRefId == Settle(1, "rejected", "refId failure")

ResolveKernel == Settle(2, "resolved", "kernel")

RejectKernel == Settle(2, "rejected", "kernel failure")

\* A reaction of Promise.all on one input: a resolved input counts down and
\* the last one resolves the combined promise; a rejected input rejects it.
AllReaction ==
  /\ microtasks # <<>>
  /\ Head(microtasks).k = "elem"
  /\ LET c == Head(microtasks).c
         p == Input(Head(microtasks).i)
         call == calls[c]
         left == call.remaining - 1
     IN IF p.st = "resolved"
        THEN IF left = 0 /\ call.allSt = "pending"
             THEN /\ calls' = [calls EXCEPT ![c].remaining = left, ![c].allSt = "resolved"]
                  /\ microtasks' = Tail(microtasks) \o <<Job("then", c, 0)>>
             ELSE /\ calls' = [calls EXCEPT ![c].remaining = left]
                  /\ microtasks' = Tail(microtasks)
        ELSE IF call.allSt = "pending"
             THEN /\ calls' = [calls EXCEPT ![c].allSt = "rejected", ![c].allErr = p.v]
                  /\ microtasks' = Tail(microtasks) \o <<Job("then", c, 0)>>
             ELSE /\ UNCHANGED calls
                  /\ microtasks' = Tail(microtasks)
  /\ UNCHANGED <<refIdP, kernelP, reactions, executed, uncaught>>

\* Mutant of RowCallback: a statement already submitted is not submitted again.
RowCallback_cached(c) ==
  LET code == RowCode(calls[c].m, refIdP.v, calls[c].args)
  IN IF \E k \in 1..Len(executed) : executed[k].code = code
     THEN <<>> ELSE <<[c |-> c, code |-> code]>>

\* The callback given to .then: it renders the statement and hands it to
\* kernel.execute, whose handle goes to protocol.verifyResult.
RowCallback(c) == <<[c |-> c, code |-> RowCode(calls[c].m, refIdP.v, calls[c].args)]>>

\* The reaction of .then(callback): the callback runs when Promise.all
\* resolved; a rejection passes through to the promise .then returned.
ThenReaction ==
  /\ microtasks # <<>>
  /\ Head(microtasks).k = "then"
  /\ LET c == Head(microtasks).c
     IN /\ IF calls[c].allSt = "resolved"
           THEN /\ executed' = executed \o RowCallback(c)
                /\ calls' = [calls EXCEPT ![c].thenSt = "resolved",
                               ![c].handle = IF RowCallback(c) = <<>> THEN "none" ELSE "inflight"]
           ELSE /\ UNCHANGED executed
                /\ calls' = [calls EXCEPT ![c].thenSt = "rejected"]
        /\ microtasks' = Tail(microtasks) \o <<Job("catch", c, 0)>>
  /\ UNCHANGED <<refIdP, kernelP, reactions, uncaught>>

\* Mutant of RowCatch: the chain ends without .catch(reject).
RowCatch_missing(call) == call

\* .catch(reject): reject is called with the reason of a rejected chain.
RowCatch(call) == IF call.thenSt = "rejected" THEN Rejected(call, call.allErr) ELSE call

CatchReaction ==
  /\ microtasks # <<>>
  /\ Head(microtasks).k = "catch"
  /\ LET c == Head(microtasks).c
     IN calls' = [calls EXCEPT ![c] = RowCatch(calls[c])]
  /\ microtasks' = Tail(microtasks)
  /\ UNCHANGED <<refIdP, kernelP, reactions, executed, uncaught>>

\* ------------------------------------------------------------ the kernel

\* Mutant of RowOnError: resolve is passed as the failure callback too.
RowOnError_resolves(call, diagnostic) == Resolved(call, Str(<<diagnostic>>))

\* What an accessor passes to protocol.verifyResult as its failure
\* callback: reject.
RowOnError(call, diagnostic) == Rejected(call, diagnostic)

\* What an accessor passes to protocol.verifyResult as its success
\* callback: _resolve, or resolve itself.  _resolve converts and then calls
\* resolve; when the conversion throws, resolve is never called.
RowOnResult(call, text) ==
  IF RowCoerce(call.m, text) = Throws
  THEN [call EXCEPT !.decoded = "threw"]
  ELSE [Resolved(call, RowCoerce(call.m, text)) EXCEPT !.decoded = "value"]

\* protocol.verifyResult: the kernel answers a statement once; an execution
\* error goes to the failure callback, a result to the success callback.
\* The callbacks run in the kernel's message handler, a task of its own, so
\* what they throw is caught by no promise.
KernelResult ==
  /\ microtasks = <<>>
  /\ \E c \in 1..Len(calls) : \E text \in ReplyTexts :
       /\ calls[c].handle = "inflight"
       /\ calls' = [calls EXCEPT ![c] = [RowOnResult(calls[c], text) EXCEPT
                                           !.handle = "done", !.reply = "result"]]
       /\ uncaught' = IF RowOnResult(calls[c], text).decoded = "threw"
                      THEN uncaught \cup {c} ELSE uncaught
  /\ UNCHANGED <<refIdP, kernelP, reactions, microtasks, executed>>

KernelError ==
  /\ microtasks = <<>>
  /\ \E c \in 1..Len(calls) :
       /\ calls[c].handle = "inflight"
       /\ calls' = [calls EXCEPT ![c] = [RowOnError(calls[c], Diagnostic) EXCEPT
                                           !.handle = "done", !.reply = "error"]]
  /\ UNCHANGED <<refIdP, kernelP, reactions, microtasks, executed, uncaught>>

\* ---------------------------------------------------------- DataFrame.js

\* One entry of a call's args list: { value, type, optional }.
ArgSpec(value, type, optional) == [value |-> value, type |-> type, optional |-> optional]

\* A list of entries that stands where one value stands.
Arr(items) == [t |-> "array", items |-> items]

\* Utils.wrapArray: one entry for every element of a native array.
wrapArray(arr) == [i \in 1..Len(arr) |-> ArgSpec(arr[i], "", FALSE)]

\* var args = { target, method, args, returnType, stringify, resolver }
CallArgs(target, method, args, returnType, stringify, resolver) ==
  [target |-> target, method |-> method, args |-> args, returnType |-> returnType,
   stringify |-> stringify, resolver |-> resolver]

\* DataFrame.prototype.collect
collectArgs(this) == CallArgs(this, "collect", <<>>, "String", TRUE, "_resolveRows")

\* DataFrame.prototype.explain
explainArgs(this, extended) ==
  CallArgs(this, "explain", <<ArgSpec(extended, "boolean", TRUE)>>, "null", FALSE, "")

\* Whether a value counts as true in a condition.
Truthy(v) ==
  CASE v.t \in {"undefined", "null", "NaN"} -> FALSE
    [] v.t = "boolean" -> v.b
    [] v.t = "number" -> v.n # 0
    [] v.t = "string" -> v.s # <<>>
    [] OTHER -> TRUE

\* A Column: an object that stands for a remote column expression.
Column(s) == [Handle(s) EXCEPT !.t = "Column"]

\* Utils.wrapArray(arr, type): one entry of that type for every element.
wrapArrayOf(arr, type) == [i \in 1..Len(arr) |-> ArgSpec(arr[i], type, FALSE)]

\* Mutant of joinArgs: the join type is passed whatever usingColumns is.
joinArgs_typeAlways(this, right, usingColumns, joinType) ==
  CallArgs(this, "join",
           <<ArgSpec(right, "", FALSE)>>
           \o (IF Truthy(usingColumns)
               THEN IF usingColumns.t = "Column" THEN <<ArgSpec(usingColumns, "", FALSE)>>
                    ELSE IF usingColumns.t = "array"
                    THEN <<ArgSpec(Arr(wrapArrayOf(usingColumns.items, "Column")), "", FALSE)>>
                    ELSE <<ArgSpec(usingColumns, "string", FALSE)>>
               ELSE <<>>)
           \o (IF Truthy(joinType) THEN <<ArgSpec(joinType, "string", FALSE)>> ELSE <<>>),
           "DataFrame", FALSE, "")

\* DataFrame.prototype.join: arr has right, then what usingColumns is.
joinArgs(this, right, usingColumns, joinType) ==
  CallArgs(this, "join",
           <<ArgSpec(right, "", FALSE)>>
           \o (IF Truthy(usingColumns)
               THEN IF usingColumns.t = "Column"
                    THEN <<ArgSpec(usingColumns, "", FALSE)>>
                         \o (IF Truthy(joinType)
                             THEN <<ArgSpec(joinType, "string", FALSE)>> ELSE <<>>)
                    ELSE IF usingColumns.t = "array"
                    THEN <<ArgSpec(Arr(wrapArrayOf(usingColumns.items, "Column")), "", FALSE)>>
                    ELSE <<ArgSpec(usingColumns, "string", FALSE)>>
               ELSE <<>>),
           "DataFrame", FALSE, "")

\* DataFrame.prototype.persist
persistArgs(this, newLevel) ==
  CallArgs(this, "persist", <<ArgSpec(newLevel, "", TRUE)>>, "DataFrame", FALSE, "")

\* DataFrame.prototype.randomSplit
randomSplitArgs(this, weights, seed) ==
  CallArgs(this, "randomSplit",
           <<ArgSpec(Arr(wrapArray(weights)), "", FALSE), ArgSpec(seed, "number", TRUE)>>,
           "[DataFrame]", FALSE, "")

\* Mutant of sampleArgs: the seed is not declared optional.
sampleArgs_seedRequired(this, withReplacement, fraction, seed) ==
  CallArgs(this, "sample",
           <<ArgSpec(withReplacement, "boolean", FALSE), ArgSpec(fraction, "number", FALSE),
             ArgSpec(seed, "number", FALSE)>>,
           "DataFrame", FALSE, "")

\* DataFrame.prototype.sample
sampleArgs(this, withReplacement, fraction, seed) ==
  CallArgs(this, "sample",
           <<ArgSpec(withReplacement, "boolean", FALSE), ArgSpec(fraction, "number", FALSE),
             ArgSpec(seed, "number", TRUE)>>,
           "DataFrame", FALSE, "")

\* DataFrame.prototype.take
takeArgs(this, params) ==
  CallArgs(this, "take", wrapArray(params), "String", TRUE, "_resolveRows")

\* RowFactory.createLocal(values, schema): a row held on this side.
createLocal(values, schema) == [values |-> values, schema |-> schema]

\* Mutant of forEachRow: rows.unshift in place of rows.push.
RECURSIVE forEachRow_unshift(_, _, _)
forEachRow_unshift(res, i, rows) ==
  IF i > Len(res) THEN [threw |-> FALSE, rows |-> rows]
  ELSE IF PropThrows(res[i]) THEN [threw |-> TRUE, rows |-> rows]
  ELSE forEachRow_unshift(res, i + 1,
         <<createLocal(GetProp(res[i], "\"values\""), GetProp(res[i], "\"schema\""))>> \o rows)

\* res.forEach(function(rowData) { rows.push(RowFactory.createLocal(
\* rowData.values, rowData.schema)) }): the rows made from the elements
\* i.. of res after the rows made so far, or the TypeError that reading a
\* property of a null element throws.
RECURSIVE forEachRow(_, _, _)
forEachRow(res, i, rows) ==
  IF i > Len(res) THEN [threw |-> FALSE, rows |-> rows]
  ELSE IF PropThrows(res[i]) THEN [threw |-> TRUE, rows |-> rows]
  ELSE forEachRow(res, i + 1,
         Append(rows, createLocal(GetProp(res[i], "\"values\""), GetProp(res[i], "\"schema\""))))

\* An error object: the name of its class and its message.
JsError(name, message) == [name |-> name, message |-> message]

NoError == JsError("", <<>>)

\* The messages of the SyntaxError JSON.parse throws and of the TypeError
\* that reading a property of null throws.
SyntaxErrorMessage == <<"Unexpected token">>

TypeErrorMessage == <<"Cannot read property 'values' of null">>

\* Mutant of ParseError: the exception is passed on as it was caught.
ParseError_unwrapped(message) == JsError("SyntaxError", message)

\* new Error("Parse Error: " + e.message)
ParseError(message) == JsError("Error", <<"Parse Error: ">> \o message)

\* function _resolveRows(result, resolve, reject): what it settles the
\* promise with.  Whatever the try block throws is rejected as a parse
\* error; a document that is no array resolves with no rows.
_resolveRows(result) ==
  LET res == JSONparse(result)
      loop == IF IsArray(res.v) THEN forEachRow(res.v.items, 1, <<>>)
              ELSE [threw |-> FALSE, rows |-> <<>>]
  IN IF res.threw
     THEN [out |-> "rejected", rows |-> <<>>, err |-> ParseError(SyntaxErrorMessage)]
     ELSE IF loop.threw
     THEN [out |-> "rejected", rows |-> <<>>, err |-> ParseError(TypeErrorMessage)]
     ELSE [out |-> "resolved", rows |-> loop.rows, err |-> NoError]

\* function _resolve(result, resolve, reject) of dtypes, inputFiles and
\* toJSON: the parsed document, or a parse error.
_resolve(result) ==
  LET res == JSONparse(result)
  IN IF res.threw
     THEN [out |-> "rejected", val |-> JUndefined, err |-> ParseError(SyntaxErrorMessage)]
     ELSE [out |-> "resolved", val |-> res.v, err |-> NoError]

\* DataFrame.prototype.dtypes
dtypesArgs(this) == CallArgs(this, "dtypes", <<>>, "String", TRUE, "_resolve")

\* DataFrame.prototype.inputFiles
inputFilesArgs(this) == CallArgs(this, "inputFiles", <<>>, "String", TRUE, "_resolve")

\* DataFrame.prototype.toJSON
toJSONArgs(this) == CallArgs(this, "toJSON", <<>>, "[Object]", FALSE, "_resolve")

\* ------------------------------------------------------- Utils.generate

\* Whether an optional argument is left out: it has no value.
Absent(a) == a.optional /\ a.value.t \in {"undefined", "null"}

\* A string's characters with every quote and backslash escaped.
RECURSIVE Escape(_)
Escape(s) ==
  IF s = <<>> THEN <<>>
  ELSE IF Len(s) = 1
  THEN (IF s[1] \in {"\"", "\\"} THEN <<"\\", s[1]>> ELSE s)
  ELSE Escape(SubSeq(s, 1, Len(s) \div 2)) \o Escape(SubSeq(s, (Len(s) \div 2) + 1, Len(s)))

\* The text one argument is rendered as: a list as a literal of its
\* rendered elements, a string quoted and escaped, a handle as its id,
\* every other value in its canonical form.
RECURSIVE marshal(_), marshalItems(_, _)
marshal(a) ==
  CASE a.value.t = "array" -> <<"[">> \o marshalItems(a.value.items, 1) \o <<"]">>
    [] a.value.t = "string" -> <<"\"">> \o Escape(a.value.s) \o <<"\"">>
    [] a.value.t = "Column" -> a.value.s
    [] OTHER -> ToText(a.value)

marshalItems(items, i) ==
  IF i > Len(items) THEN <<>>
  ELSE (IF i > 1 THEN <<", ">> ELSE <<>>) \o marshal(items[i]) \o marshalItems(items, i + 1)

\* The rendered arguments of a call, in the order of their declaration.
RECURSIVE RenderArgs(_)
RenderArgs(args) ==
  IF args = <<>> THEN <<>>
  ELSE (IF Absent(Head(args)) THEN <<>> ELSE <<marshal(Head(args))>>) \o RenderArgs(Tail(args))

RECURSIVE JoinTexts(_, _)
JoinTexts(texts, i) ==
  IF i > Len(texts) THEN <<>>
  ELSE (IF i > 1 THEN <<", ">> ELSE <<>>) \o texts[i] \o JoinTexts(texts, i + 1)

\* Whether a call makes a new remote object, so that its result is bound
\* to a generated name.
ReturnsObject(args) == args.returnType = "DataFrame"

\* Mutant of genVariable: the same name at every call.
genVariable_same(name) == <<name>> \o NumText(1)

\* protocol.genVariable(name): a name no earlier call was given.
genVariable(name) == <<name>> \o NumText(genCount + 1)

\* The statement of a call: the call on the target's id, bound to the
\* generated name when it makes an object, inside JSON.stringify when the
\* result is asked for as JSON.
Statement(args, refId, inRefId) ==
  LET call == inRefId \o <<".", args.method, "(">> \o JoinTexts(RenderArgs(args.args), 1) \o <<")">>
  IN CASE ReturnsObject(args) -> <<"var ">> \o refId \o <<" = ">> \o call \o <<";">>
       [] args.stringify -> <<"JSON.stringify(">> \o call \o <<")", ";">>
       [] OTHER -> call \o <<";">>

\* Mutant of NewFacade: the handle is resolved as soon as the name is made.
NewFacade_eager(refId) == [st |-> "resolved", v |-> refId]

\* new DataFrame(kernelP, refIdP) for the result of a call: its handle is
\* a promise nobody has settled yet.
NewFacade(refId) == [st |-> "pending", v |-> <<>>]

NewDfCall(args, argv, refId, facade) ==
  [args |-> args, argv |-> argv, refId |-> refId, facade |-> facade,
   stage |-> "awaiting", reply |-> "none",
   out |-> IF facade = 0 THEN "pending" ELSE "none", rows |-> <<>>, val |-> JUndefined,
   err |-> NoError]

\* Utils.generate(args), up to its return: a call that makes an object
\* returns the new facade at once, every other call returns a promise.
generate(args, argv) ==
  /\ Len(dfCalls) < MaxDfCalls
  /\ IF ReturnsObject(args)
     THEN /\ genCount' = genCount + 1
          /\ frames' = Append(frames, NewFacade(genVariable("dataFrame")))
          /\ dfCalls' = Append(dfCalls,
                          NewDfCall(args, argv, genVariable("dataFrame"), Len(frames) + 1))
     ELSE /\ dfCalls' = Append(dfCalls, NewDfCall(args, argv, <<>>, 0))
          /\ UNCHANGED <<genCount, frames>>
  /\ UNCHANGED <<dfExecuted, wire>>

\* The weights and seeds, fractions, levels and counts the callers pass.
Seeds == {Undef, Num(7)}

Half == Dec(5, 0 - 1)

WeightLists == {<<Half, Half>>}

StorageLevels == {Undef, Handle(<<"lvl1">>)}

DataFrame_collect ==
  \E this \in 1..Len(frames) : generate(collectArgs(this), <<>>)

DataFrame_dtypes ==
  \E this \in 1..Len(frames) : generate(dtypesArgs(this), <<>>)

DataFrame_explain ==
  \E this \in 1..Len(frames) : \E extended \in {Undef, Bool(TRUE)} :
    generate(explainArgs(this, extended), <<extended>>)

DataFrame_inputFiles ==
  \E this \in 1..Len(frames) : generate(inputFilesArgs(this), <<>>)

\* The columns and join types callers pass to join: nothing, a name,
\* names in an array, a Column; nothing, a join type, the empty string.
JoinColumns ==
  {Undef, Str(<<"age">>), Arr(<<Str(<<"age">>), Str(<<"DOB">>)>>), Column(<<"col1">>)}

JoinTypes == {Undef, Str(<<"outer">>), Str(<<>>)}

DataFrame_join ==
  \E this \in 1..Len(frames) : \E usingColumns \in JoinColumns : \E joinType \in JoinTypes :
    generate(joinArgs(this, Handle(<<"df2">>), usingColumns, joinType),
             <<Handle(<<"df2">>), usingColumns, joinType>>)

DataFrame_persist ==
  \E this \in 1..Len(frames) : \E newLevel \in StorageLevels :
    generate(persistArgs(this, newLevel), <<newLevel>>)

DataFrame_randomSplit ==
  \E this \in 1..Len(frames) : \E weights \in WeightLists : \E seed \in Seeds :
    generate(randomSplitArgs(this, weights, seed), <<weights, seed>>)

DataFrame_sample ==
  \E this \in 1..Len(frames) : \E seed \in Seeds :
    generate(sampleArgs(this, Bool(TRUE), Half, seed), <<Bool(TRUE), Half, seed>>)

DataFrame_take ==
  \E this \in 1..Len(frames) : generate(takeArgs(this, <<Num(1)>>), <<Num(1)>>)

DataFrame_toJSON ==
  \E this \in 1..Len(frames) : generate(toJSONArgs(this), <<>>)

\* The handle of the first data frame is settled by whoever made it.
ResolveRoot ==
  /\ frames[1].st = "pending"
  /\ frames' = [frames EXCEPT ![1] = [st |-> "resolved", v |-> <<"df">>]]
  /\ UNCHANGED <<dfCalls, dfExecuted, genCount, wire>>

RejectRoot ==
  /\ frames[1].st = "pending"
  /\ frames' = [frames EXCEPT ![1] = [st |-> "rejected", v |-> <<"refId failure">>]]
  /\ UNCHANGED <<dfCalls, dfExecuted, genCount, wire>>

\* Utils.generate, once the connection and the target's id are there: the
\* statement is rendered and passed to kernel.execute.
Dispatch ==
  \E c \in 1..Len(dfCalls) :
    LET call == dfCalls[c]
    IN /\ call.stage = "awaiting"
       /\ kernelP.st = "resolved"
       /\ frames[call.args.target].st = "resolved"
       /\ dfExecuted' = Append(dfExecuted,
            [c |-> c, rargs |-> RenderArgs(call.args.args),
             code |-> Statement(call.args, call.refId, frames[call.args.target].v)])
       /\ dfCalls' = [dfCalls EXCEPT ![c].stage = "submitted"]
       /\ UNCHANGED <<frames, genCount, wire>>

\* The promise or the handle a call gave out is rejected with a failure.
FailCall(c, reason, reply) ==
  /\ dfCalls' = [dfCalls EXCEPT ![c] = [@ EXCEPT
                   !.stage = "done", !.reply = reply,
                   !.out = IF @ = "pending" THEN "rejected" ELSE @,
                   !.err = reason]]
  /\ frames' = IF dfCalls[c].facade = 0 THEN frames
               ELSE [frames EXCEPT ![dfCalls[c].facade] =
                                     [st |-> "rejected", v |-> reason.message]]

\* Utils.generate when the connection or the target's id is rejected:
\* nothing is executed and the failure is passed on.
DispatchReject ==
  \E c \in 1..Len(dfCalls) :
    /\ dfCalls[c].stage = "awaiting"
    /\ \/ kernelP.st = "rejected" /\ FailCall(c, JsError("Error", <<kernelP.v>>), "none")
       \/ /\ frames[dfCalls[c].args.target].st = "rejected"
          /\ FailCall(c, JsError("Error", <<"refId failure">>), "none")
    /\ UNCHANGED <<dfExecuted, genCount, wire>>

\* protocol.verifyAssign: the kernel confirms the assignment and the new
\* handle resolves to the generated name.
KernelAssigned ==
  \E c \in 1..Len(dfCalls) :
    /\ dfCalls[c].stage = "submitted"
    /\ dfCalls[c].facade # 0
    /\ frames' = [frames EXCEPT ![dfCalls[c].facade] = [st |-> "resolved", v |-> dfCalls[c].refId]]
    /\ dfCalls' = [dfCalls EXCEPT ![c].stage = "done", ![c].reply = "ok"]
    /\ UNCHANGED <<dfExecuted, genCount, wire>>

\* protocol.verifyResult for a call that returns a value: the kernel's
\* text goes to the call's resolver when it has one; a call that returns
\* nothing resolves with nothing.
KernelReturned ==
  \E c \in 1..Len(dfCalls) :
    /\ dfCalls[c].stage = "submitted"
    /\ dfCalls[c].facade = 0
    /\ dfCalls' = [dfCalls EXCEPT ![c] =
         IF dfCalls[c].args.resolver = "_resolveRows"
         THEN LET settled == _resolveRows(wire)
              IN [@ EXCEPT !.stage = "done", !.reply = "ok", !.out = settled.out,
                           !.rows = settled.rows, !.err = settled.err]
         ELSE IF dfCalls[c].args.resolver = "_resolve"
         THEN LET settled == _resolve(wire)
              IN [@ EXCEPT !.stage = "done", !.reply = "ok", !.out = settled.out,
                           !.val = settled.val, !.err = settled.err]
         ELSE [@ EXCEPT !.stage = "done", !.reply = "ok", !.out = "resolved"]]
    /\ UNCHANGED <<frames, dfExecuted, genCount, wire>>

\* The error a promise is rejected with when the kernel reports that the
\* statement failed: it carries the kernel's diagnostic.
RemoteExecutionError(diagnostic) == JsError("RemoteExecutionError", <<diagnostic>>)

\* The kernel reports that the statement failed.
KernelFailed ==
  \E c \in 1..Len(dfCalls) :
    /\ dfCalls[c].stage = "submitted"
    /\ FailCall(c, RemoteExecutionError(Diagnostic), "error")
    /\ UNCHANGED <<dfExecuted, genCount, wire>>


\* ------------------------------------------------- the kernel's payloads

\* The schema and the values of the rows the kernel sends.
FieldJson ==
  JObject(<<"\"name\"", "\"dataType\"", "\"nullable\"">>,
          <<JStr("\"age\""), JStr("\"integer\""), JBool("false")>>)

SchemaJson == JObject(<<"\"fields\"">>, <<JArray(<<FieldJson>>)>>)

RowJson(values, schema) == JObject(<<"\"values\"", "\"schema\"">>, <<values, schema>>)

\* The elements that have both values and schema: two rows, the second
\* with its members the other way round.
WellFormedElements ==
  {RowJson(JArray(<<JNum("30")>>), SchemaJson),
   JObject(<<"\"schema\"", "\"values\"">>, <<SchemaJson, JArray(<<JNum("7")>>)>>)}

\* The elements that lack one of them or both.
MalformedElements ==
  {JObject(<<"\"values\"">>, <<JArray(<<JNum("30")>>)>>),
   JObject(<<"\"schema\"">>, <<SchemaJson>>),
   JNull}

\* Every list of at most n of the elements.
RECURSIVE ListsUpTo(_, _)
ListsUpTo(elements, n) ==
  IF n = 0 THEN {<<>>}
  ELSE ListsUpTo(elements, n - 1) \cup
       {Append(l, e) : l \in {k \in ListsUpTo(elements, n - 1) : Len(k) = n - 1}, e \in elements}

ArrayDocs == {JArray(l) : l \in ListsUpTo(WellFormedElements \cup MalformedElements, MaxRows)}

\* What the kernel may answer to collect and take: an array of elements,
\* a document that is no array, and texts that are no JSON: an array cut
\* short, and a word.
Payloads ==
  {Stringify(d) : d \in ArrayDocs \cup {SchemaJson, JNum("7"), JNull}}
  \cup {Take(Stringify(JArray(l)), Len(Stringify(JArray(l))) - 1) :
          l \in ListsUpTo(WellFormedElements, MaxRows)}
  \cup {<<"Exception">>}

\* The two answers the calls of a data frame are followed with.
FewPayloads ==
  {Stringify(JArray(<<RowJson(JArray(<<JNum("30")>>), SchemaJson)>>)), <<"Exception">>}

\* ------------------------------------------- DataFrame.first and head

\* The global object before anything defines kernelP or refIdP on it.
NoGlobals == [kernelP |-> "absent", refIdP |-> "absent"]

\* module.exports = Row: what require('./Row.js') gives is the constructor.
RowExports == "Row"

\* Row(kernelP, refIdP) called as a function, without new, in code that is
\* not strict: this is the global object, the two assignments define its
\* properties, refIdP from the argument that was not passed, and the call
\* returns undefined.
RowCalled(kernelArg) ==
  [globals |-> [kernelP |-> kernelArg, refIdP |-> "undefined"], result |-> "undefined"]

\* var Row = require('./Row.js')(this.kernelP);
\* var args = {target: this, method: 'first', returnType: Row};
firstArgs(this) == CallArgs(this, "first", <<>>, RowCalled("kernelP").result, FALSE, "")

headArgs(this) == CallArgs(this, "head", <<>>, RowCalled("kernelP").result, FALSE, "")

DataFrame_first ==
  /\ \E this \in 1..Len(frames) : generate(firstArgs(this), <<>>)
  /\ globals' = RowCalled("kernelP").globals

DataFrame_head ==
  /\ \E this \in 1..Len(frames) : generate(headArgs(this), <<>>)
  /\ globals' = RowCalled("kernelP").globals

\* ------------------------------------------------------- DataFrame.show

\* The lengths of the two strings show cuts the separators and the padding from.
SepsLength == 106

BlanksLength == 106

\* var seps = "-----...", var blanks = "     ..."
seps == [i \in 1..SepsLength |-> "-"]

blanks == [i \in 1..BlanksLength |-> " "]

\* str.substring(start, end): both ends are brought into 0..str.length.
substring(str, start, end) ==
  LET clamp(k) == IF k < 0 THEN 0 ELSE IF k > Len(str) THEN Len(str) ELSE k
  IN SubSeq(str, clamp(start) + 1, clamp(end))

\* JSON.stringify of a cell's value: a string quoted and escaped, null and
\* the numbers in their canonical form.
JSONstringify(v) ==
  CASE v.t = "string" -> <<"\"">> \o Escape(v.s) \o <<"\"">>
    [] v.t = "null" -> <<"n", "u", "l", "l">>
    [] OTHER -> ToText(v)

\* Mutant of cellStr: a cell of 20 characters is cut as well.
cellStr_from20(value, truncate) ==
  LET str == JSONstringify(value)
  IN IF Truthy(truncate) /\ Len(str) >= 20
     THEN substring(str, 0, 17) \o <<".", ".", ".">>
     ELSE str

\* var str = JSON.stringify(rows[rown].values[coln]);
\* if (truncate && str.length > 20) str = str.substring(0, 17) + "...";
cellStr(value, truncate) ==
  LET str == JSONstringify(value)
  IN IF Truthy(truncate) /\ Len(str) > 20
     THEN substring(str, 0, 17) \o <<".", ".", ".">>
     ELSE str

\* dataStr: the cells of every row, those of the columns of the first
\* row's schema.
dataStrOf(rows, truncate) ==
  [rown \in 1..Len(rows) |->
    [coln \in 1..Len(rows[1].schema.fields) |-> cellStr(rows[rown].values[coln], truncate)]]

\* colWidths[coln] after the rows rown.. : it starts as the length of the
\* field's name and grows to every longer cell.
RECURSIVE widen(_, _, _, _)
widen(width, dataStr, coln, rown) ==
  IF rown > Len(dataStr) THEN width
  ELSE widen(IF Len(dataStr[rown][coln]) > width THEN Len(dataStr[rown][coln]) ELSE width,
             dataStr, coln, rown + 1)

colWidthsOf(rows, dataStr) ==
  [i \in 1..Len(rows[1].schema.fields) |->
    widen(Len(rows[1].schema.fields[i].name), dataStr, i, 1)]

\* function justify(str, len) { return str + blanks.substring(0, len - str.length); }
justify(str, len) == str \o substring(blanks, 0, len - Len(str))

\* sepLine += seps.substring(0, colWidths[i] + 1) + "+", for the columns i..
RECURSIVE sepLineFrom(_, _)
sepLineFrom(colWidths, i) ==
  IF i > Len(colWidths) THEN <<>>
  ELSE substring(seps, 0, colWidths[i] + 1) \o <<"+">> \o sepLineFrom(colWidths, i + 1)

\* line += justify(str[coln], colWidths[coln] + 1) + "|", for the columns i..
RECURSIVE lineFrom(_, _, _)
lineFrom(strs, colWidths, i) ==
  IF i > Len(colWidths) THEN <<>>
  ELSE justify(strs[i], colWidths[i] + 1) \o <<"|">> \o lineFrom(strs, colWidths, i + 1)

NoDataToShow ==
  <<"N", "o", " ", "d", "a", "t", "a", " ", "t", "o", " ", "s", "h", "o", "w">>

\* DataFrame.show(rows, truncate): the lines it logs.  With no row it logs
\* that there is no data and goes on to read rows[0].schema, which throws.
show(rows, truncate) ==
  IF Len(rows) = 0 THEN [threw |-> TRUE, lines |-> <<NoDataToShow>>]
  ELSE LET dataStr == dataStrOf(rows, truncate)
           colWidths == colWidthsOf(rows, dataStr)
           sepLine == <<"+">> \o sepLineFrom(colWidths, 1)
           names == [i \in 1..Len(colWidths) |-> rows[1].schema.fields[i].name]
           colNames == <<"|">> \o lineFrom(names, colWidths, 1)
       IN [threw |-> FALSE,
           lines |-> <<sepLine, colNames, sepLine>>
                     \o [rown \in 1..Len(rows) |-> <<"|">> \o lineFrom(dataStr[rown], colWidths, 1)]
                     \o <<sepLine>>]

\* A call of show that is still to be made: its arguments, nothing logged.
ToShow(rows, truncate) ==
  [called |-> FALSE, rows |-> rows, truncate |-> truncate, threw |-> FALSE, lines |-> <<>>]

\* No call of show is to be made.
NotShown == ToShow(<<>>, Undef)

\* Texts of k characters, the digits in turn.
Letters(k) == [i \in 1..k |-> DigitChars[(i % 10) + 1]]

\* The values of the cells: strings whose rendering is short, exactly 20
\* characters, 21 characters, and longer than the padding; and null.
CellValues == {Str(Letters(2)), Str(Letters(18)), Str(Letters(19)), Str(Letters(110)), Null}

\* The schemas of the rows: a name shorter than every cell, a name longer
\* than the short cells, and both.
ShowSchemas ==
  {[fields |-> names] :
     names \in {<<[name |-> <<"a">>]>>,
                <<[name |-> <<"d", "e", "s", "c", "r", "i", "p", "t", "i", "o", "n">>]>>,
                <<[name |-> <<"a">>],
                  [name |-> <<"d", "e", "s", "c", "r", "i", "p", "t", "i", "o", "n">>]>>}}

\* The row lists show is given: at most MaxRows rows of one schema.
ShowRows ==
  UNION {ListsUpTo({createLocal(values, schema) :
                      values \in [1..Len(schema.fields) -> CellValues]}, MaxRows) :
           schema \in ShowSchemas}

Truncates == {Undef, Bool(FALSE), Bool(TRUE)}

DataFrame_show ==
  /\ ~shown.called
  /\ shown' = [shown EXCEPT !.called = TRUE,
                            !.threw = show(shown.rows, shown.truncate).threw,
                            !.lines = show(shown.rows, shown.truncate).lines]

\* --------------------------------------------------------- specification

\* function Row(kernelP, refIdP): a row holds its two promises; no call has
\* been made on it.
Init ==
  /\ refIdP = [st |-> "pending", v |-> "undefined"]
  /\ kernelP = [st |-> "pending", v |-> "undefined"]
  /\ calls = <<>>
  /\ reactions = [i \in 1..2 |-> <<>>]
  /\ microtasks = <<>>
  /\ executed = <<>>
  /\ uncaught = {}
  /\ frames = <<>>
  /\ dfCalls = <<>>
  /\ dfExecuted = <<>>
  /\ genCount = 0
  /\ wire = <<>>
  /\ given = Documented
  /\ shown = NotShown
  /\ globals = NoGlobals

RowNext ==
  \/ ResolveRefId \/ RejectRefId \/ ResolveKernel \/ RejectKernel
  \/ Row_anyNull \/ Row_apply \/ Row_copy \/ Row_equals \/ Row_fieldIndex
  \/ Row_get \/ Row_getBoolean \/ Row_getByte \/ Row_getDate \/ Row_getDecimal
  \/ Row_getDouble \/ Row_getFloat \/ Row_getInt \/ Row_getLong \/ Row_getShort
  \/ Row_getString \/ Row_getStruct \/ Row_getTimestamp \/ Row_hashCode
  \/ Row_isNullAt \/ Row_length \/ Row_mkString \/ Row_schema \/ Row_size
  \/ AllReaction \/ ThenReaction \/ CatchReaction
  \/ KernelResult \/ KernelError

Next == RowNext /\ UNCHANGED <<dfVars, given, shown, globals>>

Spec == Init /\ [][Next]_vars

\* A row as Init has it, whose callers and kernel supply g.
InitGiven(g) ==
  /\ refIdP = [st |-> "pending", v |-> "undefined"]
  /\ kernelP = [st |-> "pending", v |-> "undefined"]
  /\ calls = <<>>
  /\ reactions = [i \in 1..2 |-> <<>>]
  /\ microtasks = <<>>
  /\ executed = <<>>
  /\ uncaught = {}
  /\ frames = <<>>
  /\ dfCalls = <<>>
  /\ dfExecuted = <<>>
  /\ genCount = 0
  /\ wire = <<>>
  /\ given = g
  /\ shown = NotShown
  /\ globals = NoGlobals

\* What a call on a row goes through once its method has returned, when
\* its handle and its connection resolve and the kernel runs the statement.
RowSteps ==
  \/ ResolveRefId \/ ResolveKernel
  \/ AllReaction \/ ThenReaction \/ CatchReaction
  \/ KernelResult

\* The texts of the integers, and texts that are no number: a word, a
\* number followed by a word, and the empty text.
IntegerTexts == {NumText(n) : n \in (0 - MaxInt)..MaxInt}

WordTexts == {<<"a", "b">>, <<"1", "2", "a", "b">>, <<>>}

InitReplies ==
  \E text \in IntegerTexts \cup WordTexts :
    InitGiven([Documented EXCEPT !.replyTexts = {text}])

NextReplies ==
  /\ \/ RowSteps
     \/ Row_fieldIndex \/ Row_getDouble \/ Row_getInt \/ Row_length \/ Row_size
  /\ UNCHANGED <<dfVars, given, shown, globals>>

\* The accessors of numbers on a row whose kernel answers one text.
SpecReplies == InitReplies /\ [][NextReplies]_vars

\* A row whose callers pass one index, one name and one argument list to
\* mkString, and whose kernel answers 42.
OneOfEach ==
  [indexes |-> {Num(0)}, names |-> {Str(<<"a">>)}, mkStringArgs |-> {<<>>},
   replyTexts |-> {<<"4", "2">>}]

\* The indexes callers pass: integers, and a string, a fraction and nothing.
IndexValues == {Num(0), Num(1), Str(<<"x">>), Dec(15, 0 - 1), Undef}

\* The names callers pass: strings, one with a double quote and one that
\* ends in a backslash, and a number and nothing.
NameValues == {Str(<<"a">>), Str(<<"a", "\"", "b">>), Str(<<"a", "\\">>), Num(7), Undef}

\* The argument lists callers pass to mkString: none to four strings.
MkStringLists ==
  {<<>>,
   <<Str(<<",">>)>>,
   <<Str(<<"\"">>)>>,
   <<Str(<<",">>), Str(<<"[">>)>>,
   <<Str(<<",">>), Str(<<"[">>), Str(<<"]">>)>>,
   <<Str(<<",">>), Str(<<"\\">>), Str(<<"]">>)>>,
   <<Str(<<",">>), Str(<<"[">>), Str(<<"]">>), Str(<<"x">>)>>}

InitArgs ==
  \/ \E index \in IndexValues : InitGiven([OneOfEach EXCEPT !.indexes = {index}])
  \/ \E name \in NameValues : InitGiven([OneOfEach EXCEPT !.names = {name}])
  \/ \E args \in MkStringLists : InitGiven([OneOfEach EXCEPT !.mkStringArgs = {args}])

NextArgs ==
  /\ \/ RowSteps
     \/ Row_fieldIndex \/ Row_get \/ Row_getBoolean \/ Row_getByte \/ Row_getDouble
     \/ Row_getInt \/ Row_getString \/ Row_isNullAt \/ Row_mkString
  /\ UNCHANGED <<dfVars, given, shown, globals>>

\* The accessors that take arguments, for every kind of argument.
SpecArgs == InitArgs /\ [][NextArgs]_vars

\* A data frame whose handle and connection are still to come; the kernel
\* will answer collect and take with one of the payloads.
InitFrames(payloads) ==
  /\ refIdP = [st |-> "pending", v |-> "undefined"]
  /\ kernelP = [st |-> "pending", v |-> "undefined"]
  /\ calls = <<>>
  /\ reactions = [i \in 1..2 |-> <<>>]
  /\ microtasks = <<>>
  /\ executed = <<>>
  /\ uncaught = {}
  /\ frames = <<[st |-> "pending", v |-> <<>>]>>
  /\ dfCalls = <<>>
  /\ dfExecuted = <<>>
  /\ genCount = 0
  /\ wire \in payloads
  /\ given = Documented
  /\ shown = NotShown
  /\ globals = NoGlobals

InitDF == InitFrames(FewPayloads)

InitRows == InitFrames(Payloads)

\* What happens to every data frame call, whatever its method.
DispatchNext ==
  \/ (ResolveKernel \/ RejectKernel) /\ UNCHANGED <<dfVars, given, shown, globals>>
  \/ /\ \/ ResolveRoot \/ RejectRoot
        \/ Dispatch \/ DispatchReject
        \/ KernelReturned \/ KernelFailed
     /\ UNCHANGED <<kernelP, rowVars, given, shown, globals>>

NextDF ==
  \/ DispatchNext
  \/ /\ \/ DataFrame_collect \/ DataFrame_explain \/ DataFrame_persist
        \/ DataFrame_randomSplit \/ DataFrame_sample \/ DataFrame_take
        \/ KernelAssigned
     /\ UNCHANGED <<kernelP, rowVars, given, shown, globals>>

\* The calls of a data frame and its descendants.
SpecDF == InitDF /\ [][NextDF]_vars

NextRows ==
  \/ DispatchNext
  \/ (DataFrame_collect \/ DataFrame_take) /\ UNCHANGED <<kernelP, rowVars, given, shown, globals>>

\* collect and take on one data frame, for every payload of the kernel.
SpecRows == InitRows /\ [][NextRows]_vars

NextJoin ==
  \/ (ResolveKernel \/ RejectKernel) /\ UNCHANGED <<dfVars, given, shown, globals>>
  \/ /\ \/ ResolveRoot \/ RejectRoot
        \/ DataFrame_join
        \/ Dispatch \/ DispatchReject
        \/ KernelAssigned \/ KernelFailed
     /\ UNCHANGED <<kernelP, rowVars, given, shown, globals>>

\* The joins of a data frame and of the data frames they make.
SpecJoin == InitFrames({<<>>}) /\ [][NextJoin]_vars

NextDecode ==
  \/ DispatchNext
  \/ /\ \/ DataFrame_collect \/ DataFrame_dtypes \/ DataFrame_inputFiles
        \/ DataFrame_take \/ DataFrame_toJSON
     /\ UNCHANGED <<kernelP, rowVars, given, shown, globals>>

\* The calls of a data frame whose answer is decoded on this side.
SpecDecode == InitDF /\ [][NextDecode]_vars

\* What the kernel may answer to an accessor: the two booleans, other JSON
\* scalars, a word, the empty text, a blank, and a digit.
CoerceTexts ==
  {<<"t", "r", "u", "e">>, <<"f", "a", "l", "s", "e">>, <<"4", "2">>,
   <<"n", "u", "l", "l">>, <<"a", "b">>, <<>>, <<" ">>, <<"7">>}

InitCoerce ==
  \E text \in CoerceTexts : InitGiven([OneOfEach EXCEPT !.replyTexts = {text}])

NextCoerce ==
  /\ \/ RowSteps
     \/ Row_anyNull \/ Row_get \/ Row_getBoolean \/ Row_getByte \/ Row_isNullAt
  /\ UNCHANGED <<dfVars, given, shown, globals>>

\* The accessors of booleans, of any value and of bytes on a row whose
\* kernel answers one text.
SpecCoerce == InitCoerce /\ [][NextCoerce]_vars

NextFirst ==
  \/ (ResolveKernel \/ RejectKernel) /\ UNCHANGED <<dfVars, given, shown, globals>>
  \/ /\ \/ ResolveRoot \/ RejectRoot
        \/ Dispatch \/ DispatchReject
        \/ KernelReturned \/ KernelFailed
     /\ UNCHANGED <<kernelP, rowVars, given, shown, globals>>
  \/ (DataFrame_first \/ DataFrame_head) /\ UNCHANGED <<kernelP, rowVars, given, shown>>

\* first and head on one data frame.
SpecFirst == InitFrames({<<>>}) /\ [][NextFirst]_vars

NextOrder ==
  /\ \/ ResolveRefId \/ RejectRefId \/ ResolveKernel \/ RejectKernel
     \/ Row_get \/ Row_getInt
     \/ AllReaction \/ ThenReaction \/ CatchReaction
     \/ KernelResult \/ KernelError
  /\ UNCHANGED <<dfVars, given, shown, globals>>

\* get and getInt called on one row while its handle and its connection
\* settle.
SpecOrder == Init /\ [][NextOrder]_vars

\* The calls of DataFrame.show.
InitShow ==
  /\ refIdP = [st |-> "pending", v |-> "undefined"]
  /\ kernelP = [st |-> "pending", v |-> "undefined"]
  /\ calls = <<>>
  /\ reactions = [i \in 1..2 |-> <<>>]
  /\ microtasks = <<>>
  /\ executed = <<>>
  /\ uncaught = {}
  /\ frames = <<>>
  /\ dfCalls = <<>>
  /\ dfExecuted = <<>>
  /\ genCount = 0
  /\ wire = <<>>
  /\ given = Documented
  /\ shown \in {ToShow(rows, truncate) : rows \in ShowRows, truncate \in Truncates}
  /\ globals = NoGlobals

NextShow == DataFrame_show /\ UNCHANGED <<kernelP, rowVars, dfVars, given, globals>>

SpecShow == InitShow /\ [][NextShow]_vars

\* ----------------------------------------------------------------- claims

\* How many times kernel.execute was called for call c.
ExecCount(c) == Cardinality({k \in 1..Len(executed) : executed[k].c = c})

\* No reaction of call c is queued or still registered: its chain has run
\* as far as the settled inputs allow.
Quiescent(c) ==
  /\ \A k \in 1..Len(microtasks) : microtasks[k].c # c
  /\ \A i \in 1..2 : \A k \in 1..Len(reactions[i]) : reactions[i][k] # c

\* C1: every call of a Row method documented as not implemented has thrown
\* the NotImplementedException at the call itself, whatever its argument and
\* whatever the state of the row's promises: it returned no promise, left no
\* reaction behind and submitted no statement to the kernel.
C1_UnimplementedThrows ==
  \A c \in 1..Len(calls) :
    calls[c].m \in Unimplemented =>
      /\ calls[c].thrown = NotImplementedException
      /\ calls[c].ret = "none"
      /\ calls[c].out = "none"
      /\ ExecCount(c) = 0
      /\ Quiescent(c)

\* C1 witness: schema and getLong (with an argument) were both called on a
\* row whose handle id and connection are resolved, and both threw.
C1_Witness ==
  /\ refIdP.st = "resolved"
  /\ kernelP.st = "resolved"
  /\ microtasks = <<>>
  /\ Len(calls) = 2
  /\ calls[1].m = "schema" /\ calls[1].thrown = NotImplementedException
  /\ calls[2].m = "getLong" /\ calls[2].args = <<Num(0)>>
  /\ calls[2].thrown = NotImplementedException

\* C2: kernel.execute has been called for an implemented accessor only if
\* the row's handle id and the connection are both resolved; while either is
\* not, no statement of the call has been submitted.
C2_ExecuteOnlyAfterBothResolved ==
  \A c \in 1..Len(calls) :
    (calls[c].m \in Implemented /\ ExecCount(c) > 0) =>
      (refIdP.st = "resolved" /\ kernelP.st = "resolved")

\* C2 witness: the connection resolved and the handle id did not; the call
\* has run as far as it can and nothing was submitted.
C2_Witness ==
  /\ Len(calls) = 2
  /\ kernelP.st = "resolved"
  /\ refIdP.st = "pending"
  /\ microtasks = <<>>
  /\ calls[1].m = "get" /\ calls[1].remaining = 1
  /\ calls[2].m = "anyNull" /\ calls[2].remaining = 1
  /\ executed = <<>>

\* C3: an implemented accessor never submits more than one statement, and a
\* call whose handle id and connection resolved and whose reactions have run
\* has submitted exactly one: the calls submit as many statements as there
\* are such calls, identical or not.
C3_ExactlyOneStatementPerCall ==
  \A c \in 1..Len(calls) :
    calls[c].m \in Implemented =>
      /\ ExecCount(c) <= 1
      /\ (refIdP.st = "resolved" /\ kernelP.st = "resolved" /\ Quiescent(c))
           => ExecCount(c) = 1

\* C3 witness: two calls with the same arguments on the same row produced
\* two submissions of the same statement.
C3_Witness ==
  /\ Len(calls) = 2
  /\ calls[1].m = "getInt" /\ calls[2].m = "getInt"
  /\ calls[1].args = calls[2].args
  /\ Len(executed) = 2
  /\ executed[1].code = executed[2].code
  /\ executed[1].c # executed[2].c

\* The failures of the row's rejected promises.
InputFailures ==
  {refIdP.v : x \in {y \in {1} : refIdP.st = "rejected"}}
  \cup {kernelP.v : x \in {y \in {2} : kernelP.st = "rejected"}}

\* C4: when the row's handle id or the connection is rejected, an implemented
\* accessor submits nothing, and once its reactions have run the promise it
\* returned is rejected with the failure of a rejected input.
C4_RejectionShortCircuits ==
  \A c \in 1..Len(calls) :
    (calls[c].m \in Implemented /\ InputFailures # {}) =>
      /\ ExecCount(c) = 0
      /\ calls[c].out # "resolved"
      /\ Quiescent(c) => (calls[c].out = "rejected" /\ calls[c].err \in InputFailures)

\* C4 witness: the handle id resolved, the connection was rejected, and both
\* calls were rejected with the connection's failure.
C4_Witness ==
  /\ Len(calls) = 2
  /\ refIdP.st = "resolved"
  /\ kernelP.st = "rejected"
  /\ calls[1].m = "isNullAt" /\ calls[1].out = "rejected" /\ calls[1].err = kernelP.v
  /\ calls[2].m = "length" /\ calls[2].out = "rejected" /\ calls[2].err = kernelP.v
  /\ executed = <<>>

\* C5: when the kernel reports that the statement of a call failed, the
\* promise of the call is rejected with the kernel's diagnostic, it is not
\* resolved, and the statement was submitted once.
C5_KernelFailureRejects ==
  \A c \in 1..Len(calls) :
    calls[c].reply = "error" =>
      /\ calls[c].out = "rejected"
      /\ calls[c].err = Diagnostic
      /\ ExecCount(c) = 1

\* C5 witness: the kernel reported a failure for getDouble and for mkString.
C5_Witness ==
  /\ Len(calls) = 2
  /\ calls[1].m = "getDouble" /\ calls[1].reply = "error" /\ calls[1].out = "rejected"
  /\ calls[2].m = "mkString" /\ calls[2].reply = "error" /\ calls[2].out = "rejected"

\* C6: whenever the kernel succeeded and converting its response threw, the
\* promise of the call is rejected and the exception went nowhere else.
C6_NoCoercionFailureSwallowed ==
  \A c \in 1..Len(calls) :
    calls[c].decoded = "threw" => (calls[c].out = "rejected" /\ c \notin uncaught)

\* The calls that decode rows: collect and take.
RowsCall(c) == dfCalls[c].args.method \in {"collect", "take"}

\* Whether an element of a payload has both values and schema.
HasBoth(e) ==
  /\ e.k = "object"
  /\ \E i \in 1..Len(e.keys) : e.keys[i] = "\"values\""
  /\ \E i \in 1..Len(e.keys) : e.keys[i] = "\"schema\""

\* The member of that name of an element that has it.
Member(e, key) == e.items[CHOOSE i \in 1..Len(e.keys) : e.keys[i] = key]

\* The kernel's payload is a JSON array.
ArrayPayload == ~JSONparse(wire).threw /\ IsArray(JSONparse(wire).v)

WireItems == JSONparse(wire).v.items

\* C7: row decoding for collect and take is total and order-preserving on
\* well-formed input: when the payload is a JSON array of n elements that
\* each have both values and schema, the promise resolves with exactly n
\* rows, the i-th made from the values and the schema of the i-th element,
\* and it is never rejected.
C7_RowDecodingTotalAndOrdered ==
  \A c \in 1..Len(dfCalls) :
    (/\ RowsCall(c)
     /\ dfCalls[c].reply = "ok"
     /\ ArrayPayload
     /\ \A i \in 1..Len(WireItems) : HasBoth(WireItems[i]))
    => /\ dfCalls[c].out = "resolved"
       /\ Len(dfCalls[c].rows) = Len(WireItems)
       /\ \A i \in 1..Len(WireItems) :
            dfCalls[c].rows[i] = createLocal(Member(WireItems[i], "\"values\""),
                                             Member(WireItems[i], "\"schema\""))

\* C7's case: a call has decoded an array of two well-formed elements with
\* different values.
C7_Witness ==
  \E c \in 1..Len(dfCalls) :
    /\ RowsCall(c)
    /\ dfCalls[c].reply = "ok"
    /\ ArrayPayload
    /\ Len(WireItems) = 2
    /\ \A i \in 1..2 : HasBoth(WireItems[i])
    /\ WireItems[1] # WireItems[2]
    /\ dfCalls[c].out = "resolved"

\* C8: a payload for collect or take that is a JSON array in which some
\* element lacks values or lacks schema makes the promise reject; the
\* promise is not resolved with the rows decoded so far nor with rows made
\* from the missing parts.
C8_MalformedPayloadRejects ==
  \A c \in 1..Len(dfCalls) :
    (/\ RowsCall(c)
     /\ dfCalls[c].reply = "ok"
     /\ ArrayPayload
     /\ \E i \in 1..Len(WireItems) : ~HasBoth(WireItems[i]))
    => dfCalls[c].out = "rejected" /\ dfCalls[c].rows = <<>>

\* Whether a statement binds its result to that name.
Binds(code, refId) ==
  /\ Len(code) >= Len(refId) + 2
  /\ SubSeq(code, 1, Len(refId) + 2) = <<"var ">> \o refId \o <<" = ">>

\* C9: a call that makes a new remote object returns its facade without
\* waiting; the handle of the facade resolves to the generated name only
\* after the kernel has confirmed the assignment statement, never before,
\* and it is rejected when the statement fails.
C9_HandleResolvesAfterConfirmation ==
  \A c \in 1..Len(dfCalls) :
    ReturnsObject(dfCalls[c].args) =>
      /\ dfCalls[c].facade \in 1..Len(frames)
      /\ frames[dfCalls[c].facade].st = "resolved" =>
           /\ dfCalls[c].reply = "ok"
           /\ frames[dfCalls[c].facade].v = dfCalls[c].refId
           /\ \E k \in 1..Len(dfExecuted) :
                dfExecuted[k].c = c /\ Binds(dfExecuted[k].code, dfCalls[c].refId)
      /\ dfCalls[c].reply = "error" => frames[dfCalls[c].facade].st = "rejected"

\* C9's case: the kernel has confirmed the assignment of one call and has
\* failed the assignment of another.
C9_Witness ==
  \E c, d \in 1..Len(dfCalls) :
    /\ ReturnsObject(dfCalls[c].args)
    /\ dfCalls[c].reply = "ok"
    /\ frames[dfCalls[c].facade] = [st |-> "resolved", v |-> dfCalls[c].refId]
    /\ ReturnsObject(dfCalls[d].args)
    /\ dfCalls[d].reply = "error"

\* The text of a list of numbers.
RECURSIVE ListText(_, _)
ListText(values, i) ==
  IF i > Len(values) THEN <<>>
  ELSE (IF i > 1 THEN <<", ">> ELSE <<>>) \o ToText(values[i]) \o ListText(values, i + 1)

\* The text of a value the caller gave, nothing for one the caller left out.
Given(v) == IF v = Undef THEN <<>> ELSE <<ToText(v)>>

\* The arguments a call is to be rendered with, from what its caller gave.
GivenArgs(call) ==
  CASE call.args.method = "sample" ->
         <<ToText(call.argv[1]), ToText(call.argv[2])>> \o Given(call.argv[3])
    [] call.args.method = "randomSplit" ->
         <<(<<"[">> \o ListText(call.argv[1], 1) \o <<"]">>)>> \o Given(call.argv[2])
    [] OTHER -> Given(call.argv[1])

\* Whether a text occurs in a statement.
Occurs(text, code) ==
  \E i \in 1..(Len(code) - Len(text) + 1) : SubSeq(code, i, i + Len(text) - 1) = text

\* C10: an argument declared optional that the caller left out is omitted
\* from the rendered call, not rendered as a placeholder: sample without a
\* seed renders two arguments, explain and persist without an argument
\* render none, randomSplit without a seed renders the weights alone; a
\* value the caller gave is rendered at its declared position.
C10_AbsentOptionalOmitted ==
  \A k \in 1..Len(dfExecuted) :
    LET call == dfCalls[dfExecuted[k].c]
    IN call.args.method \in {"sample", "explain", "persist", "randomSplit"} =>
         /\ dfExecuted[k].rargs = GivenArgs(call)
         /\ Occurs(<<".", call.args.method, "(">> \o JoinTexts(GivenArgs(call), 1) \o <<")">>,
                   dfExecuted[k].code)
         /\ ~Occurs(<<"undefined">>, dfExecuted[k].code)

\* C10's case: a sample without a seed and a sample with a seed have both
\* been rendered.
C10_Witness ==
  \E j, k \in 1..Len(dfExecuted) :
    /\ dfCalls[dfExecuted[j].c].args.method = "sample"
    /\ dfCalls[dfExecuted[j].c].argv[3] = Undef
    /\ Len(dfExecuted[j].rargs) = 2
    /\ dfCalls[dfExecuted[k].c].args.method = "sample"
    /\ dfCalls[dfExecuted[k].c].argv[3] = Num(7)
    /\ Len(dfExecuted[k].rargs) = 3

\* C11: integer coercion is round-trip stable: when the kernel answers
\* the canonical decimal text of an integer n of the range, getInt, length,
\* size and fieldIndex resolve with a value equal to n.
C11_IntegerRoundTrip ==
  \A c \in 1..Len(calls) : \A n \in (0 - MaxInt)..MaxInt :
    (/\ calls[c].m \in {"getInt", "length", "size", "fieldIndex"}
     /\ calls[c].reply = "result"
     /\ given.replyTexts = {NumText(n)})
    => calls[c].out = "resolved" /\ calls[c].val = Num(n)

\* C11's case: getInt has resolved with a negative integer of two digits
\* and size has resolved on the same answer.
C11_Witness ==
  \E c, d \in 1..Len(calls) : \E n \in 10..MaxInt :
    /\ calls[c].m = "getInt" /\ calls[d].m = "size"
    /\ calls[c].reply = "result" /\ calls[d].reply = "result"
    /\ given.replyTexts = {NumText(0 - n)}
    /\ calls[c].val = Num(0 - n)
    /\ calls[d].out = "resolved"

\* C12: a payload that is no number is a coercion failure for numeric
\* results: when the kernel answers getInt, getDouble, length, size or
\* fieldIndex with a text that is not a number, the promise is rejected; it
\* is not resolved with NaN nor with the number its first characters make.
C12_NonNumericRejected ==
  \A c \in 1..Len(calls) :
    (/\ calls[c].m \in {"getInt", "getDouble", "length", "size", "fieldIndex"}
     /\ calls[c].reply = "result"
     /\ given.replyTexts \subseteq WordTexts)
    => calls[c].out = "rejected"

\* Whether an argument has the shape its method declares.
IsInteger(v) == v.t = "number" /\ v.e = 0

IsString(v) == v.t = "string"

\* C13: argument validation is local and precedes every remote call: when
\* an index passed to get, getBoolean, getByte, getDouble, getInt,
\* getString or isNullAt is no integer, or a name passed to fieldIndex is
\* no string, the call fails and kernel.execute is never called for it.
C13_ArgumentsValidatedLocally ==
  \A c \in 1..Len(calls) :
    (\/ /\ calls[c].m \in {"get", "getBoolean", "getByte", "getDouble", "getInt",
                            "getString", "isNullAt"}
        /\ ~IsInteger(calls[c].args[1])
     \/ /\ calls[c].m = "fieldIndex"
        /\ ~IsString(calls[c].args[1]))
    => ExecCount(c) = 0 /\ calls[c].out # "resolved"

\* The string literal of a statement whose characters start at position
\* i: its value s and the position after the quote that closes it; a
\* backslash makes the character after it part of the value.  ok is false
\* when the statement ends before the literal does.
RECURSIVE LiteralFrom(_, _, _)
LiteralFrom(code, i, acc) ==
  IF i > Len(code) THEN [ok |-> FALSE, s |-> acc, next |-> i]
  ELSE IF code[i] = "\"" THEN [ok |-> TRUE, s |-> acc, next |-> i + 1]
  ELSE IF code[i] = "\\"
  THEN (IF i + 1 > Len(code) THEN [ok |-> FALSE, s |-> acc, next |-> i]
        ELSE LiteralFrom(code, i + 2, Append(acc, code[i + 1])))
  ELSE LiteralFrom(code, i + 1, Append(acc, code[i]))

\* Whether the statement has, from position i to its end, the strings
\* k.. of args as string literals separated by commas, and the closing
\* of the call after them.
RECURSIVE ArgsAreLiterals(_, _, _, _)
ArgsAreLiterals(code, i, args, k) ==
  IF k > Len(args) THEN i = Len(code) /\ code[i] = ");"
  ELSE /\ i <= Len(code)
       /\ code[i] = "\""
       /\ LET d == LiteralFrom(code, i + 1, <<>>)
          IN /\ d.ok
             /\ d.s = args[k].s
             /\ IF k < Len(args)
                THEN /\ d.next <= Len(code)
                     /\ code[d.next] = ", "
                     /\ ArgsAreLiterals(code, d.next + 1, args, k + 1)
                ELSE ArgsAreLiterals(code, d.next, args, k + 1)

\* C14: string arguments are quoted and escaped in the statement: for
\* every string passed to fieldIndex, and for the one or three strings
\* passed to mkString, also when they hold a double quote or a backslash,
\* the statement has each argument as one well-formed string literal whose
\* value is the string, so that no argument ends its literal and adds
\* code to the statement.
C14_StringArgumentsEscaped ==
  \A k \in 1..Len(executed) :
    LET call == calls[executed[k].c]
    IN (\/ call.m = "fieldIndex" /\ IsString(call.args[1])
        \/ call.m = "mkString" /\ Len(call.args) \in {1, 3})
       => ArgsAreLiterals(executed[k].code, 5, call.args, 1)

\* The calls whose answer is decoded on this side.
DecodingCall(c) ==
  dfCalls[c].args.method \in {"collect", "take", "dtypes", "inputFiles", "toJSON"}

EntryValues(items) == [i \in 1..Len(items) |-> items[i].value]

\* C16: join builds its argument list by the shape of the call, right
\* always first: nothing more when usingColumns is absent; the join
\* expression, and after it joinType as a string only when joinType is
\* given, when usingColumns is a Column; one wrapped collection of the
\* names when usingColumns is an array; one string when usingColumns is a
\* name.  joinType adds an argument in the Column shape only.
C16_JoinArgumentsByShape ==
  \A c \in 1..Len(dfCalls) :
    dfCalls[c].args.method = "join" =>
      LET arr == dfCalls[c].args.args
          right == dfCalls[c].argv[1]
          usingColumns == dfCalls[c].argv[2]
          joinType == dfCalls[c].argv[3]
      IN /\ arr[1] = ArgSpec(right, "", FALSE)
         /\ usingColumns.t \in {"undefined", "null"} => Len(arr) = 1
         /\ usingColumns.t = "Column" =>
              /\ arr[2] = ArgSpec(usingColumns, "", FALSE)
              /\ joinType.t = "undefined" => Len(arr) = 2
              /\ (joinType.t = "string" /\ joinType.s # <<>>) =>
                   Len(arr) = 3 /\ arr[3] = ArgSpec(joinType, "string", FALSE)
         /\ usingColumns.t = "array" =>
              /\ Len(arr) = 2
              /\ arr[2].value.t = "array"
              /\ EntryValues(arr[2].value.items) = usingColumns.items
         /\ (usingColumns.t = "string" /\ usingColumns.s # <<>>) =>
              Len(arr) = 2 /\ arr[2] = ArgSpec(usingColumns, "string", FALSE)

\* C16's case: a join on a Column with a join type and a join on an array
\* of names with a join type have been made, and the first was rendered.
C16_Witness ==
  \E c, d \in 1..Len(dfCalls) :
    /\ dfCalls[c].args.method = "join"
    /\ dfCalls[c].argv[2].t = "Column"
    /\ dfCalls[c].argv[3] = Str(<<"outer">>)
    /\ Len(dfCalls[c].args.args) = 3
    /\ dfCalls[c].stage = "submitted"
    /\ dfCalls[d].args.method = "join"
    /\ dfCalls[d].argv[2].t = "array"
    /\ dfCalls[d].argv[3] = Str(<<"outer">>)
    /\ Len(dfCalls[d].args.args) = 2

\* The cells a printed line holds: the texts between its bars, without the
\* blanks that pad them.  (No cell of the rows shown holds a bar or a blank.)
Bars(line) == {i \in 1..Len(line) : line[i] = "|"}

CellsOf(line) ==
  [coln \in 1..(Cardinality(Bars(line)) - 1) |->
    LET from == CHOOSE i \in Bars(line) : Cardinality({j \in Bars(line) : j < i}) = coln - 1
        to == CHOOSE i \in Bars(line) : Cardinality({j \in Bars(line) : j < i}) = coln
    IN SelectSeq(SubSeq(line, from + 1, to - 1), LAMBDA ch : ch # " ")]

\* The cell show printed for row rown in column coln: the row's line comes
\* after the separator, the names and the separator.
PrintedCell(rown, coln) == CellsOf(shown.lines[3 + rown])[coln]

\* C17: when truncation is requested, show prints every cell whose
\* rendering is longer than 20 characters as its first 17 characters and
\* three dots, 20 characters in all, and every cell of at most 20
\* characters as it is; when truncation is not requested it prints every
\* cell as it is.
C17_TruncationAtTwenty ==
  (shown.called /\ ~shown.threw) =>
    \A rown \in 1..Len(shown.rows) :
      \A coln \in 1..Len(shown.rows[1].schema.fields) :
        LET full == JSONstringify(shown.rows[rown].values[coln])
            printed == PrintedCell(rown, coln)
        IN IF Truthy(shown.truncate) /\ Len(full) > 20
           THEN /\ Len(printed) = 20
                /\ printed = SubSeq(full, 1, 17) \o <<".", ".", ".">>
           ELSE printed = full

\* A call that asks for truncation on rows with a cell of exactly 20
\* characters and a longer one: the first is printed whole, the second cut.
C17_Witness ==
  /\ shown.called
  /\ shown.truncate = Bool(TRUE)
  /\ Len(shown.rows) = 2
  /\ Len(JSONstringify(shown.rows[1].values[1])) = 20
  /\ Len(JSONstringify(shown.rows[2].values[1])) > 20
  /\ PrintedCell(1, 1) = JSONstringify(shown.rows[1].values[1])
  /\ Len(PrintedCell(2, 1)) = 20

\* C18: for every row list that is not empty, every line show prints (the
\* three separators, the names, one line per row) has the same length, and
\* every column is as wide as the longest of its name and its cells.
C18_AlignedTable ==
  (shown.called /\ Len(shown.rows) > 0) =>
    /\ ~shown.threw
    /\ Len(shown.lines) = Len(shown.rows) + 4
    /\ \A i, j \in 1..Len(shown.lines) : Len(shown.lines[i]) = Len(shown.lines[j])

RECURSIVE QuotedList(_, _)
QuotedList(args, i) ==
  IF i > Len(args) THEN <<>>
  ELSE (IF i > 1 THEN <<", ">> ELSE <<>>) \o <<"\"">> \o args[i].s \o <<"\"">>
       \o QuotedList(args, i + 1)

\* Whether a string needs no escaping.
IsPlain(v) == IsString(v) /\ \A i \in 1..Len(v.s) : v.s[i] \notin {"\"", "\\"}

\* C20: the statement of mkString passes the arguments the caller
\* supplied: none for no argument, the separator for one, separator, start
\* and end in that order for three, and for every other count too no
\* supplied argument is left out of the statement.
C20_MkStringPassesEveryArgument ==
  \A k \in 1..Len(executed) :
    LET call == calls[executed[k].c]
    IN (call.m = "mkString" /\ \A i \in 1..Len(call.args) : IsPlain(call.args[i]))
       => SubSeq(executed[k].code, 5, Len(executed[k].code))
            = QuotedList(call.args, 1) \o <<");">>

\* The text the kernel answers in this behaviour.
TheReply == CHOOSE text \in given.replyTexts : TRUE

\* C21: anyNull, getBoolean and isNullAt resolve with true when the kernel
\* answers the text true, with false when it answers the text false, and
\* never resolve with a value that is no boolean.
C21_BooleanAccessorsGiveBooleans ==
  \A c \in 1..Len(calls) :
    (calls[c].m \in {"anyNull", "getBoolean", "isNullAt"} /\ calls[c].reply = "result")
    => /\ TheReply = <<"t", "r", "u", "e">>
            => calls[c].out = "resolved" /\ calls[c].val = Bool(TRUE)
       /\ TheReply = <<"f", "a", "l", "s", "e">>
            => calls[c].out = "resolved" /\ calls[c].val = Bool(FALSE)
       /\ calls[c].out = "resolved" => calls[c].val.t = "boolean"

\* Whether a text is the text of a finite number: it is not blank and the
\* whole of it reads as a number.
IsNumericText(text) == Trim(text) # <<>> /\ ToNumber(text).t = "number"

\* C24: get resolves with a number exactly when the kernel answers the
\* text of a finite number, and with the answer unchanged otherwise: a
\* word, the empty text and a blank are not made numbers.
C24_GetConvertsNumericTextOnly ==
  \A c \in 1..Len(calls) :
    (calls[c].m = "get" /\ calls[c].reply = "result")
    => /\ calls[c].out = "resolved"
       /\ IF IsNumericText(TheReply)
          THEN calls[c].val.t = "number"
          ELSE calls[c].val = Str(TheReply)

\* C25: getByte resolves with the byte at the index: an integer of the
\* byte range for every answer, and b when the kernel answers the decimal
\* text of the byte b.
C25_GetByteGivesTheByte ==
  \A c \in 1..Len(calls) :
    (calls[c].m = "getByte" /\ calls[c].reply = "result")
    => /\ calls[c].out = "resolved"
       /\ IsInteger(calls[c].val)
       /\ calls[c].val.n \in (0 - 128)..127
       /\ \A b \in (0 - 128)..127 : TheReply = NumText(b) => calls[c].val = Num(b)

\* C22: an answer to collect or take that is valid JSON but no array (an
\* object, a number, null) is rejected as a payload error; it is not
\* resolved as an empty list of rows.
C22_NonArrayPayloadRejects ==
  \A c \in 1..Len(dfCalls) :
    (/\ RowsCall(c)
     /\ dfCalls[c].reply = "ok"
     /\ ~JSONparse(wire).threw
     /\ ~IsArray(JSONparse(wire).v))
    => dfCalls[c].out = "rejected"

\* C23: first and head put the constructor exported by Row.js in the
\* descriptor as the expected return shape, never an undefined shape, and
\* building the descriptor changes nothing outside it.
C23_FirstAndHeadReturnRows ==
  \A c \in 1..Len(dfCalls) :
    dfCalls[c].args.method \in {"first", "head"}
    => dfCalls[c].args.returnType = RowExports /\ globals = NoGlobals

\* C26: show called with an empty row list logs that there is no data and
\* returns: it logs no line of a table and raises no error.
C26_NoDataReturnsNormally ==
  (shown.called /\ Len(shown.rows) = 0) =>
    /\ shown.lines = <<NoDataToShow>>
    /\ ~shown.threw

\* C27: calls on one row keep their order: of two implemented accessors
\* called one after the other, the statement of the first is handed to
\* kernel.execute before the statement of the second, whenever the handle
\* and the connection resolve.
C27_StatementsInCallOrder ==
  \A j, k \in 1..Len(executed) : j < k => executed[j].c < executed[k].c

\* get and then getInt were called, both statements were handed to
\* kernel.execute in that order, and the kernel has answered neither.
C27_Witness ==
  /\ Len(calls) >= 2
  /\ calls[1].m = "get" /\ calls[2].m = "getInt"
  /\ Len(executed) >= 2
  /\ executed[1].c = 1 /\ executed[2].c = 2
  /\ calls[1].reply = "none" /\ calls[2].reply = "none"

====
